---- MODULE Spec2Model ----
(***************************************************************************)
(* A model of the nestalgic MOS 6502 core (nestalgic_mos6502) driven over  *)
(* the flat RAM bus RamBus16kb: the register file, the per-cycle executor  *)
(* MOS6502::cycle, interrupt servicing, the DMA hold and the instruction   *)
(* decoder.  Registers keep their widths (u8 / u16); the bus is the full   *)
(* 64 KiB address space, stored sparsely (absent cells hold 0).            *)
(***************************************************************************)
EXTENDS Integers, Sequences, FiniteSets, TLC

VARIABLES
    a, x, y,            \* accumulator and index registers (u8)
    p,                  \* processor status (Status.0, u8)
    pc,                 \* program counter (u16)
    sp,                 \* stack pointer (u8)
    nmi, irq,           \* interrupt lines
    elapsed_cycles,     \* cycles elapsed since the CPU started
    wait_cycles,        \* cycles to idle before the next instruction
    active_dma,         \* Option<ActiveDMA>: <<>> is None, <<r>> is Some(r)
    memory,             \* RamBus16kb.memory, sparse: absent addresses hold 0
    overflow_checks,    \* TRUE: debug build (integer overflow panics); FALSE: release (wraps)
    call,               \* the last public operation applied: "new", "reset", "cycle", "line", "set"
    returned,           \* what that operation returned: Ok, an Err, or Panic
    trace,              \* what that operation did, in order: bus reads/writes and decodes
    before,             \* the CPU and the bus as that operation found them
    dma_log,            \* the DMA burst latched last and what followed it; <<>> if none
    last_start,         \* the instructions started last, newest first; <<>> if none
    env_events,         \* number of external events (line changes, later resets) so far
    wram,               \* Nestalgic.wram ([u8; 2048]), sparse: absent cells hold 0
    bus_draft,          \* which of the two CpuBus sources is built: "cpu_bus" or "nes_bus"
    bus_log,            \* the accesses made through CpuBus so far, with what they returned
    nrom,               \* NROM: prg_ram, nametable_1, nametable_2 (sparse arrays)
    mirroring_type,     \* Cartridge.rom.header.mirroring_type
    mapper_log,         \* the accesses made to the NROM mapper so far
    ppu,                \* RP2C02: addr, addr_latch, horizontal_scroll, vertical_scroll
    ppu_log,            \* the CPU's accesses to the PPU registers, each with the PPU it left
    time_since_last_master_cycle,   \* Nestalgic's time accumulator
    master_cycles,      \* number of calls of Nestalgic::cycle so far
    ticked,             \* the last tick: accumulator before, delta, cycles run; <<>> if none
    rom_bytes,          \* the bytes handed to Header::from_bytes
    header              \* what Header::from_bytes returned; <<>> before the call

vars == <<a, x, y, p, pc, sp, nmi, irq, elapsed_cycles, wait_cycles, active_dma,
          memory, overflow_checks, call, returned, trace, before, dma_log, last_start,
          env_events, wram, bus_draft, bus_log, nrom, mirroring_type, mapper_log,
          ppu, ppu_log, time_since_last_master_cycle, master_cycles, ticked,
          rom_bytes, header>>

\* the CPU with its RAM bus, and the NES CPU bus
cpu_vars == <<a, x, y, p, pc, sp, nmi, irq, elapsed_cycles, wait_cycles, active_dma,
              memory, overflow_checks, call, returned, trace, before, dma_log, last_start,
              env_events>>
bus_vars == <<wram, bus_draft, bus_log>>
\* the cartridge's mapper, the PPU registers, the master clock and the ROM loader
mapper_vars == <<nrom, mirroring_type, mapper_log>>
ppu_vars == <<ppu, ppu_log>>
clock_vars == <<time_since_last_master_cycle, master_cycles, ticked>>
rom_vars == <<rom_bytes, header>>

----------------------------------------------------------------------------
(* Bounds of the model.                                                    *)

\* cycle() is not called once elapsed_cycles has reached MaxCycles
MaxCycles == 34
\* number of external events (interrupt line changes, resets after the first)
MaxEnvEvents == 2
\* bytes_to_transfer of the registered DMA descriptor (256 on the NES)
DmaBytesToTransfer == 3
\* how many of the instructions started last are remembered in last_start
HistoryDepth == 4

----------------------------------------------------------------------------
(* Machine words.                                                          *)

Lo(v) == v % 256
Hi(v) == (v \div 256) % 256
FromLeBytes(lo, hi) == lo + 256 * hi
WrappingAdd8(v, w) == (v + w) % 256
WrappingSub8(v, w) == (v - w + 256) % 256
Min(v, w) == IF v <= w THEN v ELSE w
WrappingAdd16(v, w) == (v + w) % 65536
Bit(v, n) == (v \div (2 ^ n)) % 2

----------------------------------------------------------------------------
(* Status and StatusFlag (status.rs).                                      *)

Carry == 0
Zero == 1
InterruptDisable == 2
DecimalMode == 3
Break == 4
Unused == 5
Overflow == 6
Negative == 7

StatusGet(status, flag) == Bit(status, flag) = 1

StatusSet(status, flag, value) ==
    IF value
    THEN IF Bit(status, flag) = 1 THEN status ELSE status + 2 ^ flag
    ELSE IF Bit(status, flag) = 1 THEN status - 2 ^ flag ELSE status

\* Status::default(): no flag set, the always-one bit reads 1
StatusDefault == 32

----------------------------------------------------------------------------
(* Interrupt (interrupt.rs).                                               *)

NMI_VECTOR_ADDRESS == 65530
IRQ_VECTOR_ADDRESS == 65534
RESET_VECTOR_ADDRESS == 65532
STACK_START_ADDRESS == 256

\* no interrupt maskable
maskable_none(interrupt) == FALSE

maskable(interrupt) == interrupt = "IRQ"

vector_address(interrupt) ==
    CASE interrupt = "NMI"   -> NMI_VECTOR_ADDRESS
      [] interrupt = "RESET" -> RESET_VECTOR_ADDRESS
      [] interrupt = "IRQ"   -> IRQ_VECTOR_ADDRESS
      [] interrupt = "BRK"   -> IRQ_VECTOR_ADDRESS

----------------------------------------------------------------------------
(* The instruction decode table (instruction.rs).                          *)

Sig(opcode, addressing_mode) == [opcode |-> opcode, addressing_mode |-> addressing_mode]
None == [opcode |-> "None", addressing_mode |-> "None"]

INSTRUCTION_SIGNATURES == <<
    (* 0x00 *) Sig("BRK", "Implied"), Sig("ORA", "IndexedIndirect"), None, None,
    (* 0x04 *) Sig("NOP", "ZeroPage"), Sig("ORA", "ZeroPage"), Sig("ASL", "ZeroPage"), None,
    (* 0x08 *) Sig("PHP", "Implied"), Sig("ORA", "Immediate"), Sig("ASL", "Accumulator"), None,
    (* 0x0C *) Sig("NOP", "Absolute"), Sig("ORA", "Absolute"), Sig("ASL", "Absolute"), None,
    (* 0x10 *) Sig("BPL", "Relative"), Sig("ORA", "IndirectIndexed"), None, None,
    (* 0x14 *) Sig("NOP", "ZeroPageX"), Sig("ORA", "ZeroPageX"), Sig("ASL", "ZeroPageX"), None,
    (* 0x18 *) Sig("CLC", "Implied"), Sig("ORA", "AbsoluteY"), Sig("NOP", "Implied"), None,
    (* 0x1C *) Sig("NOP", "AbsoluteX"), Sig("ORA", "AbsoluteX"), Sig("ASL", "AbsoluteX"), None,
    (* 0x20 *) Sig("JSR", "Absolute"), Sig("AND", "IndexedIndirect"), None, None,
    (* 0x24 *) Sig("BIT", "ZeroPage"), Sig("AND", "ZeroPage"), Sig("ROL", "ZeroPage"), None,
    (* 0x28 *) Sig("PLP", "Implied"), Sig("AND", "Immediate"), Sig("ROL", "Accumulator"), None,
    (* 0x2C *) Sig("BIT", "Absolute"), Sig("AND", "Absolute"), Sig("ROL", "Absolute"), None,
    (* 0x30 *) Sig("BMI", "Relative"), Sig("AND", "IndirectIndexed"), None, None,
    (* 0x34 *) Sig("NOP", "ZeroPageX"), Sig("AND", "ZeroPageX"), Sig("ROL", "ZeroPageX"), None,
    (* 0x38 *) Sig("SEC", "Implied"), Sig("AND", "AbsoluteY"), Sig("NOP", "Implied"), None,
    (* 0x3C *) Sig("NOP", "AbsoluteX"), Sig("AND", "AbsoluteX"), Sig("ROL", "AbsoluteX"), None,
    (* 0x40 *) Sig("RTI", "Implied"), Sig("EOR", "IndexedIndirect"), None, None,
    (* 0x44 *) Sig("NOP", "ZeroPage"), Sig("EOR", "ZeroPage"), Sig("LSR", "ZeroPage"), None,
    (* 0x48 *) Sig("PHA", "Implied"), Sig("EOR", "Immediate"), Sig("LSR", "Accumulator"), None,
    (* 0x4C *) Sig("JMP", "Absolute"), Sig("EOR", "Absolute"), Sig("LSR", "Absolute"), None,
    (* 0x50 *) Sig("BVC", "Relative"), Sig("EOR", "IndirectIndexed"), None, None,
    (* 0x54 *) Sig("NOP", "ZeroPageX"), Sig("EOR", "ZeroPageX"), Sig("LSR", "ZeroPageX"), None,
    (* 0x58 *) Sig("CLI", "Implied"), Sig("EOR", "AbsoluteY"), Sig("NOP", "Implied"), None,
    (* 0x5C *) Sig("NOP", "AbsoluteX"), Sig("EOR", "AbsoluteX"), Sig("LSR", "AbsoluteX"), None,
    (* 0x60 *) Sig("RTS", "Implied"), Sig("ADC", "IndexedIndirect"), None, None,
    (* 0x64 *) Sig("NOP", "ZeroPage"), Sig("ADC", "ZeroPage"), Sig("ROR", "ZeroPage"), None,
    (* 0x68 *) Sig("PLA", "Implied"), Sig("ADC", "Immediate"), Sig("ROR", "Accumulator"), None,
    (* 0x6C *) Sig("JMP", "Indirect"), Sig("ADC", "Absolute"), Sig("ROR", "Absolute"), None,
    (* 0x70 *) Sig("BVS", "Relative"), Sig("ADC", "IndirectIndexed"), None, None,
    (* 0x74 *) Sig("NOP", "ZeroPageX"), Sig("ADC", "ZeroPageX"), Sig("ROR", "ZeroPageX"), None,
    (* 0x78 *) Sig("SEI", "Implied"), Sig("ADC", "AbsoluteY"), Sig("NOP", "Implied"), None,
    (* 0x7C *) Sig("NOP", "AbsoluteX"), Sig("ADC", "AbsoluteX"), Sig("ROR", "AbsoluteX"), None,
    (* 0x80 *) Sig("NOP", "Immediate"), Sig("STA", "IndexedIndirect"), None, Sig("SAX", "IndexedIndirect"),
    (* 0x84 *) Sig("STY", "ZeroPage"), Sig("STA", "ZeroPage"), Sig("STX", "ZeroPage"), Sig("SAX", "ZeroPage"),
    (* 0x88 *) Sig("DEY", "Implied"), None, Sig("TXA", "Implied"), None,
    (* 0x8C *) Sig("STY", "Absolute"), Sig("STA", "Absolute"), Sig("STX", "Absolute"), Sig("SAX", "Absolute"),
    (* 0x90 *) Sig("BCC", "Relative"), Sig("STA", "IndirectIndexed"), None, None,
    (* 0x94 *) Sig("STY", "ZeroPageX"), Sig("STA", "ZeroPageX"), Sig("STX", "ZeroPageY"), Sig("SAX", "ZeroPageY"),
    (* 0x98 *) Sig("TYA", "Implied"), Sig("STA", "AbsoluteY"), Sig("TXS", "Implied"), None,
    (* 0x9C *) None, Sig("STA", "AbsoluteX"), None, None,
    (* 0xA0 *) Sig("LDY", "Immediate"), Sig("LDA", "IndexedIndirect"), Sig("LDX", "Immediate"), Sig("LAX", "IndexedIndirect"),
    (* 0xA4 *) Sig("LDY", "ZeroPage"), Sig("LDA", "ZeroPage"), Sig("LDX", "ZeroPage"), Sig("LAX", "ZeroPage"),
    (* 0xA8 *) Sig("TAY", "Implied"), Sig("LDA", "Immediate"), Sig("TAX", "Implied"), None,
    (* 0xAC *) Sig("LDY", "Absolute"), Sig("LDA", "Absolute"), Sig("LDX", "Absolute"), Sig("LAX", "Absolute"),
    (* 0xB0 *) Sig("BCS", "Relative"), Sig("LDA", "IndirectIndexed"), None, Sig("LAX", "IndirectIndexed"),
    (* 0xB4 *) Sig("LDY", "ZeroPageX"), Sig("LDA", "ZeroPageX"), Sig("LDX", "ZeroPageY"), Sig("LAX", "ZeroPageY"),
    (* 0xB8 *) Sig("CLV", "Implied"), Sig("LDA", "AbsoluteY"), Sig("TSX", "Implied"), None,
    (* 0xBC *) Sig("LDY", "AbsoluteX"), Sig("LDA", "AbsoluteX"), Sig("LDX", "AbsoluteY"), Sig("LAX", "AbsoluteY"),
    (* 0xC0 *) Sig("CPY", "Immediate"), Sig("CMP", "IndexedIndirect"), None, Sig("DCP", "IndexedIndirect"),
    (* 0xC4 *) Sig("CPY", "ZeroPage"), Sig("CMP", "ZeroPage"), Sig("DEC", "ZeroPage"), Sig("DCP", "ZeroPage"),
    (* 0xC8 *) Sig("INY", "Implied"), Sig("CMP", "Immediate"), Sig("DEX", "Implied"), None,
    (* 0xCC *) Sig("CPY", "Absolute"), Sig("CMP", "Absolute"), Sig("DEC", "Absolute"), Sig("DCP", "Absolute"),
    (* 0xD0 *) Sig("BNE", "Relative"), Sig("CMP", "IndirectIndexed"), None, Sig("DCP", "IndirectIndexed"),
    (* 0xD4 *) Sig("NOP", "ZeroPageX"), Sig("CMP", "ZeroPageX"), Sig("DEC", "ZeroPageX"), Sig("DCP", "ZeroPageX"),
    (* 0xD8 *) Sig("CLD", "Implied"), Sig("CMP", "AbsoluteY"), Sig("NOP", "Implied"), Sig("DCP", "AbsoluteX"),
    (* 0xDC *) Sig("NOP", "AbsoluteX"), Sig("CMP", "AbsoluteX"), Sig("DEC", "AbsoluteX"), Sig("DCP", "AbsoluteX"),
    (* 0xE0 *) Sig("CPX", "Immediate"), Sig("SBC", "IndexedIndirect"), None, Sig("ISC", "IndexedIndirect"),
    (* 0xE4 *) Sig("CPX", "ZeroPage"), Sig("SBC", "ZeroPage"), Sig("INC", "ZeroPage"), Sig("ISC", "ZeroPage"),
    (* 0xE8 *) Sig("INX", "Implied"), Sig("SBC", "Immediate"), Sig("NOP", "Implied"), Sig("SBC", "Immediate"),
    (* 0xEC *) Sig("CPX", "Absolute"), Sig("SBC", "Absolute"), Sig("INC", "Absolute"), Sig("ISC", "Absolute"),
    (* 0xF0 *) Sig("BEQ", "Relative"), Sig("SBC", "IndirectIndexed"), None, Sig("ISC", "IndirectIndexed"),
    (* 0xF4 *) Sig("NOP", "ZeroPageX"), Sig("SBC", "ZeroPageX"), Sig("INC", "ZeroPageX"), Sig("ISC", "ZeroPageX"),
    (* 0xF8 *) Sig("SED", "Implied"), Sig("SBC", "AbsoluteY"), Sig("NOP", "Implied"), Sig("ISC", "AbsoluteY"),
    (* 0xFC *) Sig("NOP", "AbsoluteX"), Sig("SBC", "AbsoluteX"), Sig("INC", "AbsoluteX"), Sig("ISC", "AbsoluteX")
>>

\* impl TryFrom<u8> for InstructionSignature: None is Err(InvalidInstruction(byte))
SignatureTryFrom(byte) == INSTRUCTION_SIGNATURES[byte + 1]

----------------------------------------------------------------------------
(* The CPU and its bus as one value, threaded through the methods below.   *)
(* `ret` carries a method's return value; `result` is the Result so far:   *)
(* once it is not Ok the `?` operator skips the rest of the caller.        *)

Ok == [kind |-> "Ok", detail |-> 0]
Err(kind, detail) == [kind |-> kind, detail |-> detail]
Panic == [kind |-> "Panic", detail |-> 0]
IsOk(c) == c.result.kind = "Ok"

\* an entry of the trace: what happened, and the registers at that moment
Event(c, kind, address, value) ==
    [kind |-> kind, address |-> address, value |-> value,
     wait_cycles |-> c.wait_cycles, pc |-> c.pc, sp |-> c.sp, p |-> c.p]

Logged(c, kind, address, value) ==
    [c EXCEPT !.trace = Append(@, Event(c, kind, address, value))]

\* impl Bus for RamBus16kb
read_mem(mem, address) == IF address \in DOMAIN mem THEN mem[address] ELSE 0

write_mem(mem, address, data) ==
    [k \in (DOMAIN mem) \cup {address} |-> IF k = address THEN data ELSE mem[k]]

bus_read_u8(c, address) == Logged(c, "read", address, read_mem(c.memory, address))

bus_write_u8(c, address, data) ==
    Logged([c EXCEPT !.memory = write_mem(@, address, data)], "write", address, data)

\* Bus::read_u16: little endian, the high byte at address.wrapping_add(1)
read_u16_value(mem, address) ==
    FromLeBytes(read_mem(mem, address), read_mem(mem, WrappingAdd16(address, 1)))

bus_read_u16(c, address) ==
    bus_read_u8(bus_read_u8(c, address), WrappingAdd16(address, 1))

\* Bus::write_u16 with the high byte at address + 1, not wrapped
bus_write_u16_unwrapped(c, address, value) ==
    bus_write_u8(bus_write_u8(c, address, Lo(value)), address + 1, Hi(value))

\* Bus::write_u16
bus_write_u16(c, address, value) ==
    bus_write_u8(bus_write_u8(c, address, Lo(value)), WrappingAdd16(address, 1), Hi(value))

----------------------------------------------------------------------------
(* Instruction fetch (instruction.rs, addressing_mode.rs).                 *)

\* `?`: the rest of the caller runs only on Ok
Then(c, F(_)) == IF IsOk(c) THEN F(c) ELSE c

TwoByteModes == {"Indirect", "Absolute", "AbsoluteX", "AbsoluteY"}
UnusedOperandModes == {"Implied", "Accumulator"}

\* AddressingMode::read_addressing: (Addressing, cycles taken, bytes used)
read_addressing(mode, start, mem) ==
    IF mode \in TwoByteModes
    THEN [addressing |-> [mode |-> mode, arg |-> read_u16_value(mem, start)],
          cycles_taken |-> 2, bytes_used |-> 2]
    ELSE IF mode \in UnusedOperandModes
    THEN [addressing |-> [mode |-> mode, arg |-> 0], cycles_taken |-> 1, bytes_used |-> 0]
    ELSE [addressing |-> [mode |-> mode, arg |-> read_mem(mem, start)],
          cycles_taken |-> 1, bytes_used |-> 1]

\* Instruction::try_from_bus, once the signature is known
FromSignature(start, mem, byte, signature, addressing) ==
    [result |-> Ok, byte |-> byte, operand |-> WrappingAdd16(start, 1),
     instruction |-> [opcode |-> signature.opcode, addressing |-> addressing.addressing],
     cycles_taken |-> 1 + addressing.cycles_taken,
     bytes_used |-> 1 + addressing.bytes_used]

\* Instruction::try_from_bus.  `start + signature_bytes_used` is a plain u16
\* addition: at start = 0xFFFF it panics with overflow checks and wraps without.
try_from_bus(start, mem, checks) ==
    IF SignatureTryFrom(read_mem(mem, start)) = None
    THEN [result |-> Err("InvalidInstruction", read_mem(mem, start)),
          byte |-> read_mem(mem, start)]
    ELSE IF checks /\ start + 1 >= 65536
    THEN [result |-> Panic, byte |-> read_mem(mem, start)]
    ELSE FromSignature(start, mem, read_mem(mem, start),
                       SignatureTryFrom(read_mem(mem, start)),
                       read_addressing(SignatureTryFrom(read_mem(mem, start)).addressing_mode,
                                       WrappingAdd16(start, 1), mem))

\* the bus reads try_from_bus issues, in order
LogOperand(c, f) ==
    IF f.result # Ok THEN c
    ELSE IF f.instruction.addressing.mode \in TwoByteModes
    THEN bus_read_u16(c, f.operand)
    ELSE bus_read_u8(c, f.operand)

LogFetch(c, f) == LogOperand(Logged(bus_read_u8(c, c.pc), "decode", c.pc, f.byte), f)

\* read_instruction stepping over the byte it could not decode
Fetched_skipping(c, f) ==
    IF f.result # Ok THEN [c EXCEPT !.result = f.result, !.pc = WrappingAdd16(c.pc, 1)]
    ELSE [c EXCEPT !.pc = WrappingAdd16(c.pc, f.bytes_used),
                   !.wait_cycles = @ + (f.cycles_taken - 1),
                   !.ret = f.instruction]

\* MOS6502::read_instruction, given what try_from_bus returned
Fetched(c, f) ==
    IF f.result # Ok THEN [c EXCEPT !.result = f.result]
    ELSE IF overflow_checks /\ c.pc + f.bytes_used >= 65536
    THEN [c EXCEPT !.result = Panic]
    ELSE [c EXCEPT !.pc = WrappingAdd16(c.pc, f.bytes_used),
                   !.wait_cycles = @ + (f.cycles_taken - 1),
                   !.ret = f.instruction]

ReadInstructionWith(c, f) == Fetched(LogFetch(c, f), f)

\* MOS6502::read_instruction: the instruction is returned in `ret`
read_instruction(c) == ReadInstructionWith(c, try_from_bus(c.pc, c.memory, overflow_checks))

----------------------------------------------------------------------------
(* DMA (dma.rs) and the CPU's bus accessors.                               *)

DMA_TRIGGER_ADDRESS == 16404
DMA_TARGET_ADDRESS == 8196

\* MOS6502.dma: the registry with_dma fills, keyed by trigger address
dma == [t \in {DMA_TRIGGER_ADDRESS} |->
           [trigger_address |-> t, target_address |-> DMA_TARGET_ADDRESS,
            bytes_to_transfer |-> DmaBytesToTransfer]]

\* ActiveDMA::from_dma
from_dma(d, start_address) ==
    [start_address |-> start_address, target_address |-> d.target_address,
     bytes_to_transfer |-> d.bytes_to_transfer, bytes_transferred |-> 0]

\* MOS6502::read_u8: the byte read is read_mem(c.memory, address)
read_u8(c, address) ==
    [bus_read_u8(c, address) EXCEPT !.wait_cycles = @ + 1]

\* write_u8 charging the extra cycle on even cycle counts
write_u8_even_stall(c, address, value) ==
    IF address \in DOMAIN dma
    THEN [Logged(c, "latch", address, value) EXCEPT
             !.active_dma = <<from_dma(dma[address], value * 256)>>,
             !.wait_cycles = @ + 1 + (IF c.elapsed_cycles % 2 = 0 THEN 1 ELSE 0) + 1]
    ELSE [bus_write_u8(c, address, value) EXCEPT !.wait_cycles = @ + 1]

\* MOS6502::write_u8
write_u8(c, address, value) ==
    IF address \in DOMAIN dma
    THEN [Logged(c, "latch", address, value) EXCEPT
             !.active_dma = <<from_dma(dma[address], value * 256)>>,
             !.wait_cycles = @ + 1 + (IF c.elapsed_cycles % 2 # 0 THEN 1 ELSE 0) + 1]
    ELSE [bus_write_u8(c, address, value) EXCEPT !.wait_cycles = @ + 1]

\* step_active_dma ending the transfer one byte late
AdvanceDma_one_more(c, d) ==
    [c EXCEPT !.active_dma =
        IF d.bytes_transferred + 1 > d.bytes_to_transfer THEN <<>>
        ELSE <<[d EXCEPT !.bytes_transferred = @ + 1]>>]

\* step_active_dma: bytes_transferred += 1, and the transfer ends when complete
AdvanceDma(c, d) ==
    [c EXCEPT !.active_dma =
        IF d.bytes_transferred + 1 >= d.bytes_to_transfer THEN <<>>
        ELSE <<[d EXCEPT !.bytes_transferred = @ + 1]>>]

\* step_active_dma: one byte from the source to the target
TransferByte(c, d, source_address) ==
    [bus_write_u8(bus_read_u8(AdvanceDma(c, d), source_address),
                  d.target_address, read_mem(c.memory, source_address))
        EXCEPT !.wait_cycles = @ + 1, !.ret = "Active"]

\* MOS6502::step_active_dma: `ret` is the DMAStatus
step_active_dma(c) ==
    IF c.active_dma # <<>>
    THEN TransferByte(c, c.active_dma[1],
                      c.active_dma[1].start_address + c.active_dma[1].bytes_transferred)
    ELSE [c EXCEPT !.ret = "Inactive"]

----------------------------------------------------------------------------
(* Registers and the stack (mod.rs).                                       *)

read_register(c, register) ==
    CASE register = "A"  -> c.a
      [] register = "X"  -> c.x
      [] register = "Y"  -> c.y
      [] register = "P"  -> c.p
      [] register = "SP" -> c.sp

SetZeroNegative(status, value) ==
    StatusSet(StatusSet(status, Zero, value = 0), Negative, Bit(value, 7) = 1)

\* write_register storing the byte written to P as it is
write_register_as_is(c, register, value) ==
    CASE register = "A"  -> [c EXCEPT !.a = value, !.p = SetZeroNegative(@, value)]
      [] register = "X"  -> [c EXCEPT !.x = value, !.p = SetZeroNegative(@, value)]
      [] register = "Y"  -> [c EXCEPT !.y = value, !.p = SetZeroNegative(@, value)]
      [] register = "SP" -> [c EXCEPT !.sp = value]
      [] register = "P"  -> [c EXCEPT !.p = value]

\* MOS6502::write_register
write_register(c, register, value) ==
    CASE register = "A"  -> [c EXCEPT !.a = value, !.p = SetZeroNegative(@, value)]
      [] register = "X"  -> [c EXCEPT !.x = value, !.p = SetZeroNegative(@, value)]
      [] register = "Y"  -> [c EXCEPT !.y = value, !.p = SetZeroNegative(@, value)]
      [] register = "SP" -> [c EXCEPT !.sp = value]
      [] register = "P"  ->
            [c EXCEPT !.p = StatusSet(StatusSet(value, Break, FALSE), Unused, TRUE)]

\* push_stack, one byte: write at the stack pointer, then decrement it
PushByte(c, value) ==
    [write_u8(c, STACK_START_ADDRESS + c.sp, value) EXCEPT !.sp = WrappingSub8(@, 1)]

\* MOS6502::push_stack, for each byte of `values` in turn
RECURSIVE push_stack(_, _)
push_stack(c, values) ==
    IF values = <<>> THEN c
    ELSE push_stack(PushByte(c, Head(values)), Tail(values))

push_stack_u8(c, value) == push_stack(c, <<value>>)

\* push_stack_u16 pushing the `lo` byte first
push_stack_u16_lo_first(c, value) == push_stack(c, <<Lo(value), Hi(value)>>)

\* the `hi` byte is pushed first
push_stack_u16(c, value) == push_stack(c, <<Hi(value), Lo(value)>>)

\* pull_stack, one byte: read at the stack pointer into the vector in `ret`
PullByte(c) ==
    [read_u8(c, STACK_START_ADDRESS + c.sp) EXCEPT
        !.ret = Append(@, read_mem(c.memory, STACK_START_ADDRESS + c.sp))]

\* the last read is not followed by an increment
RECURSIVE PullLoop(_, _)
PullLoop(c, n) ==
    IF n = 1 THEN PullByte(c)
    ELSE PullLoop([PullByte(c) EXCEPT !.sp = WrappingAdd8(@, 1)], n - 1)

\* pull_stack reading the first byte where the stack pointer points
pull_stack_in_place(c, n) ==
    PullLoop([c EXCEPT !.wait_cycles = @ + 1, !.ret = <<>>], n)

\* MOS6502::pull_stack: the n bytes pulled are returned in `ret`, first pulled first
pull_stack(c, n) ==
    PullLoop([c EXCEPT !.sp = WrappingAdd8(@, 1), !.wait_cycles = @ + 1, !.ret = <<>>], n)

----------------------------------------------------------------------------
(* Interrupts (mod.rs).                                                    *)

\* Status::with sets the flag in self.p and hands back self.p, which is pushed
PushStatus(c, kind) ==
    push_stack_u8([c EXCEPT !.p = StatusSet(@, Break, kind = "BRK")],
                  StatusSet(c.p, Break, kind = "BRK"))

\* RESET decrements the stack three times but writes nothing
PushState(c, kind) ==
    IF kind # "RESET"
    THEN PushStatus(push_stack_u16(c, c.pc), kind)
    ELSE [c EXCEPT !.sp = WrappingSub8(@, 3), !.wait_cycles = @ + 3]

LoadVector(c, kind) ==
    [bus_read_u16(c, vector_address(kind)) EXCEPT
        !.wait_cycles = @ + 2,
        !.p = StatusSet(@, InterruptDisable, TRUE),
        !.pc = read_u16_value(c.memory, vector_address(kind))]

Service(c, kind) == LoadVector(PushState(c, kind), kind)

\* MOS6502::interrupt
interrupt(c, kind) ==
    IF maskable(kind) /\ StatusGet(c.p, InterruptDisable) THEN c
    ELSE Then(Then(Then(Logged(c, kind, vector_address(kind), 0),
                        read_instruction),
                   read_instruction),
              LAMBDA s : Service(s, kind))

\* MOS6502::execute_interrupts
execute_interrupts(c) ==
    IF c.nmi THEN Then(interrupt(c, "NMI"), LAMBDA s : [s EXCEPT !.nmi = FALSE])
    ELSE IF c.irq THEN interrupt(c, "IRQ")
    ELSE c

----------------------------------------------------------------------------
(* Addressing resolution (addressing_mode.rs) and Addressable               *)
(* (addressable.rs).                                                       *)

Addressable(addressing, kind, value, crossed, cycles) ==
    [addressing |-> addressing, target |-> [kind |-> kind, value |-> value],
     page_boundary_crossed |-> crossed, cycles |-> cycles]

Memory(addressing, address, crossed, cycles) ==
    Addressable(addressing, "Memory", address, crossed, cycles)

\* target_zero_page_indexed carrying into the next page
target_zero_page_indexed_carry(c, g, register) ==
    [bus_read_u8(c, g.arg) EXCEPT !.ret = Memory(g, g.arg + register, FALSE, 1)]

target_zero_page_indexed(c, g, register) ==
    [bus_read_u8(c, g.arg) EXCEPT
        !.ret = Memory(g, WrappingAdd8(g.arg, register), FALSE, 1)]

\* cpu.pc.wrapping_add(offset as u16): the offset byte is widened unsigned
relative_target(program_counter, offset) == WrappingAdd16(program_counter, offset)

target_relative(c, g) ==
    LET target == relative_target(c.pc, g.arg)
    IN  [c EXCEPT !.ret = Memory(g, target, Hi(target) # Hi(c.pc), 0)]

target_indexed_indirect(c, g) ==
    LET target_address_lo == WrappingAdd8(g.arg, c.x)
        target_address_hi == WrappingAdd8(target_address_lo, 1)
        target_address == FromLeBytes(read_mem(c.memory, target_address_lo),
                                      read_mem(c.memory, target_address_hi))
    IN  [bus_read_u8(bus_read_u8(c, target_address_lo), target_address_hi) EXCEPT
            !.ret = Memory(g, target_address, FALSE, 3)]

target_indirect_indexed(c, g) ==
    LET target_address_hi == WrappingAdd8(g.arg, 1)
        target_lo == read_mem(c.memory, g.arg)
        target_address == FromLeBytes(target_lo, read_mem(c.memory, target_address_hi))
    IN  [bus_read_u8(bus_read_u8(c, g.arg), target_address_hi) EXCEPT
            !.ret = Memory(g, WrappingAdd16(target_address, c.y),
                           target_lo + c.y > 255, 2)]

\* target_indirect reading the high byte from the next address
target_indirect_next_byte(c, g) ==
    [bus_read_u8(bus_read_u8(c, g.arg), WrappingAdd16(g.arg, 1)) EXCEPT
        !.ret = Memory(g, read_u16_value(c.memory, g.arg), FALSE, 2)]

\* the "JMP $xxFF" bug: the high byte is fetched from the same page
target_indirect(c, g) ==
    LET plus_one_with_bug == FromLeBytes(WrappingAdd8(Lo(g.arg), 1), Hi(g.arg))
        address == FromLeBytes(read_mem(c.memory, g.arg),
                               read_mem(c.memory, plus_one_with_bug))
    IN  [bus_read_u8(bus_read_u8(c, g.arg), plus_one_with_bug) EXCEPT
            !.ret = Memory(g, address, FALSE, 2)]

target_absolute_indexed(c, g, index_register) ==
    [c EXCEPT !.ret = Memory(g, WrappingAdd16(g.arg, index_register),
                             Lo(g.arg) + index_register > 255, 0)]

\* Addressing::read_addressable: the Addressable is returned in `ret`
read_addressable(c, g) ==
    CASE g.mode = "Implied" ->
            [c EXCEPT !.result = Err("InvalidTargetAddressAttempt", 0)]
      [] g.mode = "Accumulator" ->
            [c EXCEPT !.ret = Addressable(g, "Accumulator", 0, FALSE, 0)]
      [] g.mode = "Immediate" ->
            [c EXCEPT !.ret = Addressable(g, "Immediate", g.arg, FALSE, 0)]
      [] g.mode = "ZeroPage" -> [c EXCEPT !.ret = Memory(g, g.arg, FALSE, 0)]
      [] g.mode = "ZeroPageX" -> target_zero_page_indexed(c, g, c.x)
      [] g.mode = "ZeroPageY" -> target_zero_page_indexed(c, g, c.y)
      [] g.mode = "Relative" -> target_relative(c, g)
      [] g.mode = "IndexedIndirect" -> target_indexed_indirect(c, g)
      [] g.mode = "IndirectIndexed" -> target_indirect_indexed(c, g)
      [] g.mode = "Indirect" -> target_indirect(c, g)
      [] g.mode = "Absolute" -> [c EXCEPT !.ret = Memory(g, g.arg, FALSE, 0)]
      [] g.mode = "AbsoluteX" -> target_absolute_indexed(c, g, c.x)
      [] g.mode = "AbsoluteY" -> target_absolute_indexed(c, g, c.y)

\* the first two lines of every try_*_instruction_*: resolve, charge the cycles
ChargeResolution(c) ==
    IF IsOk(c) THEN [c EXCEPT !.wait_cycles = @ + c.ret.cycles] ELSE c

Resolve(c, instruction) == ChargeResolution(read_addressable(c, instruction.addressing))

IndexedWriteModes == {"AbsoluteX", "AbsoluteY", "IndirectIndexed"}

\* the fix-up read charged only when the index addition crossed a page
IndirectionCycles_when_crossed(t) ==
    IF t.addressing.mode \in IndexedWriteModes /\ t.page_boundary_crossed THEN 1 ELSE 0

IndirectionCycles(t) == IF t.addressing.mode \in IndexedWriteModes THEN 1 ELSE 0

\* Addressable::address
address_of(c, t) ==
    IF t.target.kind = "Memory" THEN [c EXCEPT !.ret = t.target.value]
    ELSE [c EXCEPT !.result = Err("InvalidAddressAttempt", 0)]

\* Addressable::read charging one cycle whether or not a page was crossed
addressable_read_flat(c, t) ==
    CASE t.target.kind = "Accumulator" -> [c EXCEPT !.ret = c.a]
      [] t.target.kind = "Immediate" -> [c EXCEPT !.ret = t.target.value]
      [] t.target.kind = "Memory" ->
            [read_u8(c, t.target.value) EXCEPT
                !.ret = read_mem(c.memory, t.target.value)]

\* Addressable::read: the byte is returned in `ret`
addressable_read(c, t) ==
    CASE t.target.kind = "Accumulator" -> [c EXCEPT !.ret = c.a]
      [] t.target.kind = "Immediate" -> [c EXCEPT !.ret = t.target.value]
      [] t.target.kind = "Memory" ->
            [read_u8(c, t.target.value) EXCEPT
                !.wait_cycles = @ + (IF t.page_boundary_crossed THEN 1 ELSE 0),
                !.ret = read_mem(c.memory, t.target.value)]

\* Addressable::try_write
try_write(c, t, value) ==
    CASE t.target.kind = "Immediate" ->
            [c EXCEPT !.result = Err("InvalidAddressableWrite", value)]
      [] t.target.kind = "Accumulator" -> write_register(c, "A", value)
      [] t.target.kind = "Memory" ->
            [write_u8(c, t.target.value, value) EXCEPT
                !.wait_cycles = @ + IndirectionCycles(t)]

\* try_modify on memory: one read (two for the indexed modes), the result written twice
ModifyMemory(c, t, output) ==
    write_u8(write_u8([read_u8(c, t.target.value) EXCEPT
                          !.wait_cycles = @ + IndirectionCycles(t)],
                      t.target.value, output),
             t.target.value, output)

\* try_modify, given the input and f(input)
ModifyWith(c, t, input, output) ==
    CASE t.target.kind = "Immediate" ->
            [c EXCEPT !.result = Err("InvalidAddressableModify", 0)]
      [] t.target.kind = "Accumulator" ->
            [write_register(c, "A", output) EXCEPT
                !.p = SetZeroNegative(@, output), !.ret = <<input, output>>]
      [] t.target.kind = "Memory" ->
            [ModifyMemory(c, t, output) EXCEPT
                !.p = SetZeroNegative(@, output), !.ret = <<input, output>>]

ModifyInput(c, t) ==
    IF t.target.kind = "Accumulator" THEN c.a ELSE read_mem(c.memory, t.target.value)

\* Addressable::try_modify: (input, output) is returned in `ret`
try_modify(c, t, F(_)) == ModifyWith(c, t, ModifyInput(c, t), F(ModifyInput(c, t)))

----------------------------------------------------------------------------
(* Instruction semantics (mod.rs).                                         *)

RECURSIVE Bitwise(_, _, _, _)
\* bit i of the result is table[2 * bit i of v + bit i of w + 1], for i < n
Bitwise(v, w, table, n) ==
    IF n = 0 THEN 0
    ELSE table[2 * (v % 2) + (w % 2) + 1] + 2 * Bitwise(v \div 2, w \div 2, table, n - 1)

BitAnd(v, w) == Bitwise(v, w, <<0, 0, 0, 1>>, 8)
BitOr(v, w)  == Bitwise(v, w, <<0, 1, 1, 1>>, 8)
BitXor(v, w) == Bitwise(v, w, <<0, 1, 1, 0>>, 8)

try_read_instruction_target_address(c, instruction) ==
    Then(Resolve(c, instruction), LAMBDA s : address_of(s, s.ret))

try_read_instruction_value(c, instruction) ==
    Then(Resolve(c, instruction), LAMBDA s : addressable_read(s, s.ret))

try_write_instruction_value(c, instruction, value) ==
    Then(Resolve(c, instruction), LAMBDA s : try_write(s, s.ret, value))

try_modify_instruction_value(c, instruction, F(_)) ==
    Then(Resolve(c, instruction), LAMBDA s : try_modify(s, s.ret, F))

\* errors of the read are ignored
op_nop(c, instruction) ==
    [try_read_instruction_value(c, instruction) EXCEPT !.result = Ok]

op_load(c, register, instruction) ==
    Then(try_read_instruction_value(c, instruction),
         LAMBDA s : write_register(s, register, s.ret))

op_lax(c, instruction) ==
    Then(try_read_instruction_value(c, instruction),
         LAMBDA s : write_register(write_register(s, "A", s.ret), "X", s.ret))

op_store(c, register, instruction) ==
    try_write_instruction_value(c, instruction, read_register(c, register))

op_sax(c, instruction) ==
    try_write_instruction_value(c, instruction, BitAnd(c.a, c.x))

op_transfer(c, source, target) ==
    write_register(c, target, read_register(c, source))

\* pushing P sets Break in the value that is pushed
\* op_push_stack pushing P as the register holds it
op_push_stack_as_held(c, source) == push_stack_u8(c, read_register(c, source))

op_push_stack(c, source) ==
    push_stack_u8(c, IF source = "P" THEN StatusSet(c.p, Break, TRUE)
                     ELSE read_register(c, source))

op_pull_stack(c, target) ==
    Then(pull_stack(c, 1), LAMBDA s : write_register(s, target, s.ret[1]))

op_jump(c, instruction) ==
    Then(try_read_instruction_target_address(c, instruction),
         LAMBDA s : [s EXCEPT !.pc = s.ret])

\* op_jump_subroutine pushing the address of the next instruction
JumpSubroutine_next(c, address) ==
    [push_stack_u16([c EXCEPT !.wait_cycles = @ + 1], c.pc) EXCEPT !.pc = address]

\* `self.pc - 1` is a plain u16 subtraction
JumpSubroutine(c, address) ==
    IF overflow_checks /\ c.pc = 0 THEN [c EXCEPT !.result = Panic]
    ELSE [push_stack_u16([c EXCEPT !.wait_cycles = @ + 1], (c.pc + 65535) % 65536)
             EXCEPT !.pc = address]

op_jump_subroutine(c, instruction) ==
    Then(try_read_instruction_target_address(c, instruction),
         LAMBDA s : JumpSubroutine(s, s.ret))

\* `address + 1` is a plain u16 addition
ReturnTo(c, address) ==
    IF overflow_checks /\ address + 1 >= 65536 THEN [c EXCEPT !.result = Panic]
    ELSE [c EXCEPT !.pc = WrappingAdd16(address, 1), !.wait_cycles = @ + 1]

op_return(c) ==
    Then(pull_stack(c, 2), LAMBDA s : ReturnTo(s, FromLeBytes(s.ret[1], s.ret[2])))

\* RTI going on one byte behind the address pulled, as RTS does
op_return_from_interrupt_plus_one(c) ==
    Then(pull_stack(c, 3),
         LAMBDA s : [write_register(s, "P", s.ret[1]) EXCEPT
                        !.pc = WrappingAdd16(FromLeBytes(s.ret[2], s.ret[3]), 1)])

op_return_from_interrupt(c) ==
    Then(pull_stack(c, 3),
         LAMBDA s : [write_register(s, "P", s.ret[1]) EXCEPT
                        !.pc = FromLeBytes(s.ret[2], s.ret[3])])

Branch(c, t, condition) ==
    IF t.target.kind # "Memory" THEN [c EXCEPT !.result = Err("InvalidAddressAttempt", 0)]
    ELSE IF condition
    THEN [c EXCEPT !.pc = t.target.value,
                   !.wait_cycles = @ + 1 + (IF t.page_boundary_crossed THEN 1 ELSE 0)]
    ELSE c

op_branch_if(c, instruction, condition) ==
    Then(Resolve(c, instruction), LAMBDA s : Branch(s, s.ret, condition))

op_logical(c, instruction, F(_, _)) ==
    Then(try_read_instruction_value(c, instruction),
         LAMBDA s : write_register(s, "A", F(s.a, s.ret)))

SetFlags3(status, f1, v1, f2, v2, f3, v3) ==
    StatusSet(StatusSet(StatusSet(status, f1, v1), f2, v2), f3, v3)

op_bit(c, instruction) ==
    Then(try_read_instruction_value(c, instruction),
         LAMBDA s : [s EXCEPT !.p = SetFlags3(@, Zero, BitAnd(s.ret, s.a) = 0,
                                               Overflow, Bit(s.ret, 6) = 1,
                                               Negative, Bit(s.ret, 7) = 1)])

\* add, given the 9-bit sum: Carry, Overflow, then the register write
AddResult(c, lhs_register, lhs, rhs, sum) ==
    write_register(
        [c EXCEPT !.p = StatusSet(StatusSet(@, Carry, sum > 255), Overflow,
                            Bit(lhs, 7) = Bit(rhs, 7) /\ Bit(lhs, 7) # Bit(sum % 256, 7))],
        lhs_register, sum % 256)

\* add leaving the carry flag out of the sum
add_without_carry_in(c, lhs_register, rhs) ==
    AddResult(c, lhs_register, read_register(c, lhs_register), rhs, c.a + rhs)

\* MOS6502::add: the sum is taken from self.a, the sign of lhs from lhs_register
add(c, lhs_register, rhs) ==
    AddResult(c, lhs_register, read_register(c, lhs_register), rhs,
              c.a + rhs + Bit(c.p, Carry))

op_add(c, instruction) ==
    Then(try_read_instruction_value(c, instruction), LAMBDA s : add(s, "A", s.ret))

\* subtract, given the signed difference: a borrow clears Carry
SubtractResult(c, lhs_register, lhs, rhs, difference) ==
    write_register(
        [c EXCEPT !.p = StatusSet(StatusSet(@, Carry, ~(difference < 0)), Overflow,
                            Bit(lhs, 7) # Bit(rhs, 7)
                            /\ Bit(lhs, 7) # Bit((difference + 512) % 256, 7))],
        lhs_register, (difference + 512) % 256)

\* subtract taking the carry flag itself as the borrow
subtract_carry_as_borrow(c, lhs_register, rhs) ==
    SubtractResult(c, lhs_register, read_register(c, lhs_register), rhs,
                   c.a - rhs - Bit(c.p, Carry))

\* MOS6502::subtract
subtract(c, lhs_register, rhs) ==
    SubtractResult(c, lhs_register, read_register(c, lhs_register), rhs,
                   c.a - rhs - (1 - Bit(c.p, Carry)))

op_sub(c, instruction) ==
    Then(try_read_instruction_value(c, instruction), LAMBDA s : subtract(s, "A", s.ret))

Increment(v) == WrappingAdd8(v, 1)
Decrement(v) == WrappingSub8(v, 1)

op_increment_subtract(c, instruction) ==
    Then(try_modify_instruction_value(c, instruction, Increment),
         LAMBDA s : subtract(s, "A", s.ret[2]))

Compare(c, reg, value) ==
    [c EXCEPT !.p = SetFlags3(@, Carry, reg >= value,
                                 Zero, WrappingSub8(reg, value) = 0,
                                 Negative, Bit(WrappingSub8(reg, value), 7) = 1)]

\* the register is read before the operand
op_compare(c, register, instruction) ==
    Then(try_read_instruction_value(c, instruction),
         LAMBDA s : Compare(s, read_register(c, register), s.ret))

\* the flags of op_decrement_compare, comparison = a.wrapping_sub(output)
DecrementCompareFlags(c, comparison) ==
    [c EXCEPT !.p = SetFlags3(@, Carry, c.a >= comparison,
                                 Zero, comparison = 0,
                                 Negative, Bit(comparison, 7) = 1)]

\* op_decrement_compare comparing with the value read, not the value written
op_decrement_compare_input(c, instruction) ==
    Then(try_modify_instruction_value(c, instruction, Decrement),
         LAMBDA s : DecrementCompareFlags(s, WrappingSub8(s.a, s.ret[1])))

op_decrement_compare(c, instruction) ==
    Then(try_modify_instruction_value(c, instruction, Decrement),
         LAMBDA s : DecrementCompareFlags(s, WrappingSub8(s.a, s.ret[2])))

ShiftLeft(v) == (2 * v) % 256
ShiftRight(v) == v \div 2

\* Carry from bit `bit` of the input; the result is returned in `ret`
ShiftedOut(c, bit) ==
    [c EXCEPT !.p = StatusSet(@, Carry, Bit(c.ret[1], bit) = 1), !.ret = c.ret[2]]

op_shift_left(c, instruction) ==
    Then(try_modify_instruction_value(c, instruction, ShiftLeft),
         LAMBDA s : ShiftedOut(s, 7))

op_shift_right(c, instruction) ==
    Then(try_modify_instruction_value(c, instruction, ShiftRight),
         LAMBDA s : ShiftedOut(s, 0))

op_rotate_left(c, instruction) ==
    Then(try_modify_instruction_value(c, instruction,
                                      LAMBDA v : BitOr(ShiftLeft(v), Bit(c.p, Carry))),
         LAMBDA s : ShiftedOut(s, 7))

op_rotate_right(c, instruction) ==
    Then(try_modify_instruction_value(c, instruction,
                                      LAMBDA v : BitOr(ShiftRight(v), 128 * Bit(c.p, Carry))),
         LAMBDA s : ShiftedOut(s, 0))

op_shift_left_then_or(c, instruction) ==
    Then(op_shift_left(c, instruction),
         LAMBDA s : write_register(s, "A", BitOr(s.a, s.ret)))

op_shift_right_then_xor(c, instruction) ==
    Then(op_shift_right(c, instruction),
         LAMBDA s : write_register(s, "A", BitXor(s.a, s.ret)))

op_rotate_left_then_and(c, instruction) ==
    Then(op_rotate_left(c, instruction),
         LAMBDA s : write_register(s, "A", BitAnd(s.a, s.ret)))

op_rotate_right_then_add(c, instruction) ==
    Then(op_rotate_right(c, instruction), LAMBDA s : add(s, "A", s.ret))

modify_register(c, register, F(_)) ==
    write_register(c, register, F(read_register(c, register)))

SetFlag(c, flag, value) == [c EXCEPT !.p = StatusSet(@, flag, value)]

\* MOS6502::execute_instruction
execute_instruction(c, i) ==
    LET op == i.opcode IN
    CASE op = "LDA" -> op_load(c, "A", i)
      [] op = "LDX" -> op_load(c, "X", i)
      [] op = "LDY" -> op_load(c, "Y", i)
      [] op = "LAX" -> op_lax(c, i)
      [] op = "STA" -> op_store(c, "A", i)
      [] op = "STX" -> op_store(c, "X", i)
      [] op = "STY" -> op_store(c, "Y", i)
      [] op = "SAX" -> op_sax(c, i)
      [] op = "TAX" -> op_transfer(c, "A", "X")
      [] op = "TAY" -> op_transfer(c, "A", "Y")
      [] op = "TXA" -> op_transfer(c, "X", "A")
      [] op = "TYA" -> op_transfer(c, "Y", "A")
      [] op = "TSX" -> op_transfer(c, "SP", "X")
      [] op = "TXS" -> op_transfer(c, "X", "SP")
      [] op = "PHA" -> op_push_stack(c, "A")
      [] op = "PHP" -> op_push_stack(c, "P")
      [] op = "PLA" -> op_pull_stack(c, "A")
      [] op = "PLP" -> op_pull_stack(c, "P")
      [] op = "AND" -> op_logical(c, i, BitAnd)
      [] op = "EOR" -> op_logical(c, i, BitXor)
      [] op = "ORA" -> op_logical(c, i, BitOr)
      [] op = "BIT" -> op_bit(c, i)
      [] op = "ADC" -> op_add(c, i)
      [] op = "SBC" -> op_sub(c, i)
      [] op = "CMP" -> op_compare(c, "A", i)
      [] op = "CPX" -> op_compare(c, "X", i)
      [] op = "CPY" -> op_compare(c, "Y", i)
      [] op = "INC" -> try_modify_instruction_value(c, i, Increment)
      [] op = "INX" -> modify_register(c, "X", Increment)
      [] op = "INY" -> modify_register(c, "Y", Increment)
      [] op = "ISC" -> op_increment_subtract(c, i)
      [] op = "DEC" -> try_modify_instruction_value(c, i, Decrement)
      [] op = "DEX" -> modify_register(c, "X", Decrement)
      [] op = "DEY" -> modify_register(c, "Y", Decrement)
      [] op = "DCP" -> op_decrement_compare(c, i)
      [] op = "ASL" -> op_shift_left(c, i)
      [] op = "LSR" -> op_shift_right(c, i)
      [] op = "ROR" -> op_rotate_right(c, i)
      [] op = "ROL" -> op_rotate_left(c, i)
      [] op = "SLO" -> op_shift_left_then_or(c, i)
      [] op = "SRE" -> op_shift_right_then_xor(c, i)
      [] op = "RLA" -> op_rotate_left_then_and(c, i)
      [] op = "RRA" -> op_rotate_right_then_add(c, i)
      [] op = "JMP" -> op_jump(c, i)
      [] op = "JSR" -> op_jump_subroutine(c, i)
      [] op = "RTS" -> op_return(c)
      [] op = "BCS" -> op_branch_if(c, i, StatusGet(c.p, Carry))
      [] op = "BCC" -> op_branch_if(c, i, ~StatusGet(c.p, Carry))
      [] op = "BEQ" -> op_branch_if(c, i, StatusGet(c.p, Zero))
      [] op = "BNE" -> op_branch_if(c, i, ~StatusGet(c.p, Zero))
      [] op = "BMI" -> op_branch_if(c, i, StatusGet(c.p, Negative))
      [] op = "BPL" -> op_branch_if(c, i, ~StatusGet(c.p, Negative))
      [] op = "BVS" -> op_branch_if(c, i, StatusGet(c.p, Overflow))
      [] op = "BVC" -> op_branch_if(c, i, ~StatusGet(c.p, Overflow))
      [] op = "CLC" -> SetFlag(c, Carry, FALSE)
      [] op = "CLD" -> SetFlag(c, DecimalMode, FALSE)
      [] op = "CLI" -> SetFlag(c, InterruptDisable, FALSE)
      [] op = "CLV" -> SetFlag(c, Overflow, FALSE)
      [] op = "SEC" -> SetFlag(c, Carry, TRUE)
      [] op = "SED" -> SetFlag(c, DecimalMode, TRUE)
      [] op = "SEI" -> SetFlag(c, InterruptDisable, TRUE)
      [] op = "NOP" -> op_nop(c, i)
      [] op = "RTI" -> op_return_from_interrupt(c)
      [] op = "BRK" -> interrupt(c, "BRK")

----------------------------------------------------------------------------
(* The public operations: reset() and cycle().                             *)

\* MOS6502::reset
reset(c) == interrupt(c, "RESET")

\* cycle(), line 141: the fetch of the instruction to execute
FetchToExecute(c) ==
    read_instruction(Logged(c, "fetch", c.pc, read_mem(c.memory, c.pc)))

\* the part of cycle() reached when no cycle is pending and no DMA is active
CycleRun(c) ==
    Then(Then(Then(execute_interrupts(c),
                   FetchToExecute),
              LAMBDA s : execute_instruction(s, s.ret)),
         LAMBDA s : [s EXCEPT !.elapsed_cycles = @ + 1])

\* the same, a step that transfers a DMA byte not counted in elapsed_cycles
AfterDma_untimed(c) ==
    IF c.ret = "Active" THEN c ELSE CycleRun(c)

AfterDma(c) ==
    IF c.ret = "Active" THEN [c EXCEPT !.elapsed_cycles = @ + 1] ELSE CycleRun(c)

\* cycle() without the early return for the last pending cycle
cycle_ignoring_last_wait(c) ==
    IF c.wait_cycles > 1
    THEN [c EXCEPT !.wait_cycles = @ - 1, !.elapsed_cycles = @ + 1]
    ELSE AfterDma(step_active_dma(c))

\* MOS6502::cycle
cycle(c) ==
    IF c.wait_cycles > 0
    THEN [c EXCEPT !.wait_cycles = @ - 1, !.elapsed_cycles = @ + 1]
    ELSE AfterDma(step_active_dma(c))

----------------------------------------------------------------------------
(* Memory images: RamBus16kb::new() is all zero; with_program and          *)
(* with_memory_at (bus.rs) place the bytes.                                *)

with_memory_at(mem, start, bytes) ==
    [k \in start .. (start + Len(bytes) - 1) |-> bytes[k - start + 1]] @@ mem

\* the program ends right below the NMI vector; the reset vector points at it
with_program(mem, bytes) ==
    LET program_start == NMI_VECTOR_ADDRESS - Len(bytes)
    IN  with_memory_at(with_memory_at(mem, program_start, bytes),
                       RESET_VECTOR_ADDRESS, <<Lo(program_start), Hi(program_start)>>)

\* where the images below place the interrupt handlers.  The vectors lie right
\* behind the program, so that a program running off its end executes them:
\* as code they are NOP; NOP at 0xFFFA and CLC; NOP at 0xFFFE.
NMI_HANDLER == FromLeBytes(234, 234)
IRQ_HANDLER == FromLeBytes(24, 234)
\* the page the DMA tests copy from
OAM_PAGE == 2

with_vectors(mem) ==
    with_memory_at(with_memory_at(mem,
        NMI_VECTOR_ADDRESS, <<Lo(NMI_HANDLER), Hi(NMI_HANDLER)>>),
        IRQ_VECTOR_ADDRESS, <<Lo(IRQ_HANDLER), Hi(IRQ_HANDLER)>>)

\* both handlers are a single RTI
with_handlers(mem) ==
    with_memory_at(with_memory_at(with_vectors(mem), NMI_HANDLER, <<64>>),
                   IRQ_HANDLER, <<64>>)

\* one byte more than the DMA copies, all distinct and non-zero
OamData == [i \in 1 .. (DmaBytesToTransfer + 1) |-> 16 + i]

\* tests::nes_style_ppu_dma_on_odd_cycle: LDX #$02; STX $4014; LDA #$E0
ProgramDmaOdd ==
    with_memory_at(with_handlers(with_program(<<>>, <<162, OAM_PAGE, 142, 20, 64, 169, 224>>)),
                   256 * OAM_PAGE, OamData)

\* tests::nes_style_ppu_dma_on_even_cycle: LDX #$02; LDY $00; STX $4014; LDA #$E0
ProgramDmaEven ==
    with_memory_at(with_handlers(with_program(<<>>, <<162, OAM_PAGE, 164, 0, 142, 20, 64, 169, 224>>)),
                   256 * OAM_PAGE, OamData)

\* CLI; LDX #$01; TXS; LDA #$07; SEI; NOP; CLI; BRK; NOP; NOP
ProgramInterrupts ==
    with_handlers(with_program(<<>>, <<88, 162, 1, 154, 169, 7, 120, 234, 88, 0, 234, 234>>))

\* LDA #$01; then the unassigned opcode 0x02
ProgramInvalid ==
    with_handlers(with_program(<<>>, <<169, 1, 2>>))

\* NOP, then on through the vectors to 0xFFFF, where the PC overflows
ProgramOffTheEnd ==
    with_handlers(with_program(<<>>, <<234>>))

\* loop: JMP loop, followed by a data byte that is no opcode (0x02)
ProgramDataAfterJump ==
    with_handlers(with_program(<<>>, <<76, 246, 255, 2>>))

Programs ==
    {ProgramDmaOdd, ProgramDmaEven, ProgramInterrupts, ProgramInvalid, ProgramOffTheEnd,
     ProgramDataAfterJump}

----------------------------------------------------------------------------
(* The state machine.                                                      *)

CPU ==
    [a |-> a, x |-> x, y |-> y, p |-> p, pc |-> pc, sp |-> sp, nmi |-> nmi, irq |-> irq,
     elapsed_cycles |-> elapsed_cycles, wait_cycles |-> wait_cycles,
     active_dma |-> active_dma, memory |-> memory,
     result |-> Ok, trace |-> <<>>, ret |-> 0]

InterruptKinds == {"NMI", "IRQ", "BRK", "RESET"}

\* some entry of the trace t is of one of `kinds`
Has(t, kinds) == \E i \in 1 .. Len(t) : t[i].kind \in kinds

\* where the first such entry is
FirstIndex(t, kinds) ==
    CHOOSE i \in 1 .. Len(t) :
        t[i].kind \in kinds /\ \A j \in 1 .. (i - 1) : t[j].kind \notin kinds

First(t, kinds) == t[FirstIndex(t, kinds)]

\* what a step of step_active_dma leaves in the trace: one read, one write
IsTransfer(t) == Len(t) = 2 /\ t[1].kind = "read" /\ t[2].kind = "write"

\* write_u8 latched a DMA: a new burst, latched by the store fetched in this step
Latched(c) ==
    [value |-> First(c.trace, {"latch"}).value,
     trigger |-> First(c.trace, {"latch"}).address,
     opcode |-> First(c.trace, {"fetch"}).value,
     store |-> First(c.trace, {"fetch"}).address,
     pc |-> c.pc, started |-> elapsed_cycles,
     transfers |-> <<>>, fetched |-> <<>>]

\* step_active_dma moved a byte
Transferred(c) ==
    [source |-> c.trace[1].address, read |-> c.trace[1].value,
     target |-> c.trace[2].address, written |-> c.trace[2].value,
     elapsed |-> elapsed_cycles, wait_cycles |-> c.wait_cycles]

\* the word the first two pushes of the trace t leave on the stack
ReturnAddress(t) ==
    FromLeBytes(t[FirstIndex(t, {"write"}) + 1].value, t[FirstIndex(t, {"write"})].value)

\* the first instruction fetched for execution since the burst was latched;
\* where the program goes on: there, or, if an interrupt was serviced first, at
\* the return address that was pushed
Resumed(c) ==
    [address |-> First(c.trace, {"fetch"}).address,
     interrupted |-> Has(c.trace, {"NMI", "IRQ"}),
     resumes_at |-> IF Has(c.trace, {"NMI", "IRQ"}) THEN ReturnAddress(c.trace)
                    ELSE First(c.trace, {"fetch"}).address,
     elapsed |-> elapsed_cycles]

\* dma_log after a cycle() that left the CPU and the bus as `c`
Observed(c) ==
    IF Has(c.trace, {"latch"}) THEN <<Latched(c)>>
    ELSE IF dma_log = <<>> THEN <<>>
    ELSE IF IsTransfer(c.trace)
    THEN <<[dma_log[1] EXCEPT !.transfers = Append(@, Transferred(c))]>>
    ELSE IF dma_log[1].fetched = <<>> /\ Has(c.trace, {"fetch"})
    THEN <<[dma_log[1] EXCEPT !.fetched = <<Resumed(c)>>]>>
    ELSE dma_log

\* an instruction was started by a cycle() that succeeded: its opcode, the
\* registers it found and left, when it started, the cycles it takes (this one
\* and those it left pending) and the DMA bytes moved since
StartedNow(c) ==
    [opcode |-> First(c.trace, {"fetch"}).value,
     pc |-> First(c.trace, {"fetch"}).pc, sp |-> First(c.trace, {"fetch"}).sp,
     p |-> First(c.trace, {"fetch"}).p, a |-> a, x |-> x, y |-> y,
     after |-> [pc |-> c.pc, sp |-> c.sp, p |-> c.p, a |-> c.a],
     elapsed |-> elapsed_cycles, cost |-> c.wait_cycles + 1, transfers |-> 0]

\* last_start after a cycle() that left the CPU and the bus as `c`: the
\* instructions started last, newest first
Starts(c) ==
    IF ~IsOk(c) THEN <<>>
    ELSE IF Has(c.trace, {"fetch"})
    THEN SubSeq(<<StartedNow(c)>> \o last_start, 1, Min(Len(last_start) + 1, HistoryDepth))
    ELSE IF last_start # <<>> /\ IsTransfer(c.trace)
    THEN [last_start EXCEPT ![1].transfers = @ + 1]
    ELSE last_start

\* the state after `operation` left the CPU and the bus as `c`
Becomes(c, operation) ==
    /\ a' = c.a /\ x' = c.x /\ y' = c.y /\ p' = c.p /\ pc' = c.pc /\ sp' = c.sp
    /\ nmi' = c.nmi /\ irq' = c.irq
    /\ elapsed_cycles' = c.elapsed_cycles /\ wait_cycles' = c.wait_cycles
    /\ active_dma' = c.active_dma /\ memory' = c.memory
    /\ call' = operation /\ returned' = c.result /\ trace' = c.trace
    /\ before' = CPU
    /\ dma_log' = IF operation = "cycle" THEN Observed(c) ELSE <<>>
    /\ last_start' = IF operation = "cycle" THEN Starts(c) ELSE <<>>
    /\ UNCHANGED <<bus_vars, mapper_vars, ppu_vars, clock_vars, rom_vars>>

\* NROM::empty, restricted to the arrays behind 0x6000-0x7FFF and 0x2000-0x2FFF
NROM_empty == [prg_ram |-> <<>>, nametable_1 |-> <<>>, nametable_2 |-> <<>>]

\* RP2C02::new, restricted to the address and scroll registers
RP2C02_new == [addr |-> 0, addr_latch |-> FALSE, horizontal_scroll |-> 0, vertical_scroll |-> 0]

\* the parts of the console a specification leaves alone
BusNew == wram = <<>> /\ bus_draft = "nes_bus" /\ bus_log = <<>>
MapperNew == nrom = NROM_empty /\ mirroring_type = "Horizontal" /\ mapper_log = <<>>
PpuNew == ppu = RP2C02_new /\ ppu_log = <<>>
ClockNew == time_since_last_master_cycle = 0 /\ master_cycles = 0 /\ ticked = <<>>
\* no file read, no header parsed
Unparsed == [kind |-> "Unparsed"]

RomNew == rom_bytes = <<>> /\ header = Unparsed

\* MOS6502::new() with the NES DMA registered, and a bus holding one of the programs
Init ==
    /\ a = 0 /\ x = 0 /\ y = 0
    /\ p = StatusDefault
    /\ pc = 0 /\ sp = 0
    /\ nmi = FALSE /\ irq = FALSE
    /\ elapsed_cycles = 0 /\ wait_cycles = 0
    /\ active_dma = <<>>
    /\ memory \in Programs
    /\ overflow_checks \in BOOLEAN
    /\ call = "new" /\ returned = Ok /\ trace = <<>>
    /\ dma_log = <<>> /\ last_start = <<>>
    /\ env_events = 0
    /\ before = CPU
    /\ BusNew /\ MapperNew /\ PpuNew /\ ClockNew /\ RomNew

Running == returned # Panic

\* cpu.reset(&mut bus): at power-on, and later as an external event
Reset ==
    /\ Running
    /\ call = "new" \/ env_events < MaxEnvEvents
    /\ Becomes(reset(CPU), "reset")
    /\ env_events' = IF call = "new" THEN env_events ELSE env_events + 1
    /\ UNCHANGED overflow_checks

CanCycle == Running /\ call # "new" /\ elapsed_cycles < MaxCycles

\* cpu.cycle(&mut bus) while cycles are pending
CycleWait ==
    /\ CanCycle /\ wait_cycles > 0
    /\ Becomes(cycle(CPU), "cycle")
    /\ UNCHANGED <<overflow_checks, env_events>>

\* cpu.cycle(&mut bus) while a DMA transfer is active
CycleDma ==
    /\ CanCycle /\ wait_cycles = 0 /\ active_dma # <<>>
    /\ Becomes(cycle(CPU), "cycle")
    /\ UNCHANGED <<overflow_checks, env_events>>

\* cpu.cycle(&mut bus) otherwise: interrupts, then the next instruction
CycleInstruction ==
    /\ CanCycle /\ wait_cycles = 0 /\ active_dma = <<>>
    /\ Becomes(cycle(CPU), "cycle")
    /\ UNCHANGED <<overflow_checks, env_events>>

\* the owner of the CPU drives its public interrupt lines
Line(n, i) ==
    /\ Running /\ call # "new" /\ env_events < MaxEnvEvents
    /\ nmi' = n /\ irq' = i
    /\ call' = "line" /\ returned' = Ok /\ trace' = <<>>
    /\ before' = CPU
    /\ env_events' = env_events + 1
    /\ UNCHANGED <<a, x, y, p, pc, sp, elapsed_cycles, wait_cycles, active_dma, memory,
                   overflow_checks, dma_log, last_start, bus_vars, mapper_vars,
                   ppu_vars, clock_vars, rom_vars>>

AssertNmi == ~nmi /\ Line(TRUE, irq)
AssertIrq == ~irq /\ Line(nmi, TRUE)
ReleaseIrq == irq /\ Line(nmi, FALSE)

Next ==
    \/ Reset
    \/ CycleWait
    \/ CycleDma
    \/ CycleInstruction
    \/ AssertNmi
    \/ AssertIrq
    \/ ReleaseIrq

Spec == Init /\ [][Next]_vars

----------------------------------------------------------------------------
(* Single instructions, run the way tests::op_jump_subroutine_and_return   *)
(* runs them: after new() and reset() the test sets the public fields      *)
(* (cpu.pc = 0xF000, cpu.wait_cycles = 0) and cycles from there.  Here the *)
(* registers A, X, Y and SP are set as well, to values that make the       *)
(* stack pointer and the zero page wrap.                                   *)

\* where the test puts its main program, and its subroutine
MAIN_PROGRAM == 61440
SUB_PROGRAM == 512

\* 0x00, 0x10 (only Break), 0xCF (all flags but Break and the always-one bit), 0xFF
AccumulatorValues == {0, 16, 207, 255}
StackPointers == {0, 1, 255}
IndexValues == {1, 15, 255}
\* operands of the zero-page instructions, and pointers of JMP (indirect)
ZeroPageOperands == {240, 255}
IndirectPointers == {640, 767}

with_main_program(mem, bytes) == with_memory_at(with_handlers(mem), MAIN_PROGRAM, bytes)

\* PHP; PHA; PLP; PHA; PHA; PHA; RTI
ProgramStatus == with_main_program(<<>>, <<8, 72, 40, 72, 72, 72, 64>>)

\* PHA; PLA; PHA; PHP; PLA; PLA
ProgramStack == with_main_program(<<>>, <<72, 104, 72, 8, 104, 104>>)

\* 0xF000: JSR $0200; JMP $F0FE   0xF0FE: JSR $0200   0x0200: RTS
ProgramCall ==
    with_memory_at(with_memory_at(with_main_program(<<>>, <<32, 0, 2, 76, 254, 240>>),
                                  MAIN_PROGRAM + 254, <<32, 0, 2>>),
                   SUB_PROGRAM, <<96>>)

\* JMP (pointer), with 0xCC at 0x0200, 0x04; 0xBB at 0x0280, 0x03 at 0x02FF, 0xAA at 0x0300
ProgramJumpIndirect(pointer) ==
    with_memory_at(with_memory_at(with_memory_at(
        with_main_program(<<>>, <<108, Lo(pointer), Hi(pointer)>>),
        512, <<204>>), 640, <<4, 187>>), 767, <<3, 170>>)

\* LDA (m,X); LDA m,X; LDA (m),Y; LDX m,Y, with 0x40; 0x03 at 0x00 and 0x80 at 0xFF
ProgramZeroPage(m) ==
    with_memory_at(with_memory_at(
        with_main_program(<<>>, <<161, m, 181, m, 177, m, 182, m>>),
        0, <<64, 3>>), 255, <<128>>)

\* one opcode byte of the 6502 for each of LAX, SAX, DCP, ISC, SLO, SRE, RLA, RRA
\* (their zero-page forms) and for NOP #i, NOP zp, NOP zp,X, NOP abs, NOP abs,X
UnofficialOpcodes == {167, 135, 199, 231, 7, 71, 39, 103, 128, 4, 20, 12, 28}

\* the opcode with the operand bytes 0x10 0x02, and 0x05 at 0x0010
ProgramUnofficial(byte) ==
    with_memory_at(with_main_program(<<>>, <<byte, 16, 2>>), 16, <<5>>)

\* INC $10; ASL $0210,X; DEC $10,X; LSR $0210, with 0x05 at 0x0010 and 0x81 at 0x0210..0x0211
ProgramModify ==
    with_memory_at(with_memory_at(
        with_main_program(<<>>, <<230, 16, 30, 16, 2, 214, 16, 78, 16, 2>>),
        16, <<5>>), 528, <<129, 129>>)

\* STA $0210,X; STA $02F0,Y; STA ($10),Y; STA ($20,X); STA $0210; STA $10,X; STA $10,
\* with the pointer 0x02F0 at 0x0010
ProgramStore ==
    with_memory_at(
        with_main_program(<<>>, <<157, 16, 2, 153, 240, 2, 145, 16, 129, 32,
                                  141, 16, 2, 149, 16, 133, 16>>),
        16, <<240, 2>>)

\* LDA $0210,X; LDA $02F0,Y; LDA ($10),Y; LDA $FFF0,X, with the pointer 0x02F0 at 0x0010
ProgramLoad ==
    with_memory_at(
        with_main_program(<<>>, <<189, 16, 2, 185, 240, 2, 177, 16, 189, 240, 255>>),
        16, <<240, 2>>)

\* offsets of a branch: forwards, and 0x80, 0xFC, 0xFF
BranchOffsets == {2, 127, 128, 252, 255}

\* BNE m
ProgramBranch(m) == with_main_program(<<>>, <<208, m>>)

\* 0xF000: BEQ +5; BNE +2   0xF006: BCC +127   0xF087: BPL +127   0xF108: BVC $FC
ProgramBranches ==
    with_memory_at(with_memory_at(with_memory_at(
        with_main_program(<<>>, <<240, 5, 208, 2>>),
        MAIN_PROGRAM + 6, <<144, 127>>), MAIN_PROGRAM + 135, <<16, 127>>),
        MAIN_PROGRAM + 264, <<80, 252>>)

InstructionPrograms ==
    {ProgramStatus, ProgramStack, ProgramCall, ProgramModify, ProgramStore, ProgramLoad,
     ProgramBranches}
        \cup {ProgramBranch(m) : m \in BranchOffsets}
        \cup {ProgramUnofficial(byte) : byte \in UnofficialOpcodes}
        \cup {ProgramJumpIndirect(pointer) : pointer \in IndirectPointers}
        \cup {ProgramZeroPage(m) : m \in ZeroPageOperands}

\* new(), reset(), then the fields set by the test
InitInstructions ==
    /\ a \in AccumulatorValues /\ x \in IndexValues /\ y \in IndexValues
    /\ sp \in StackPointers
    /\ p = StatusSet(StatusDefault, InterruptDisable, TRUE)
    /\ pc = MAIN_PROGRAM
    /\ nmi = FALSE /\ irq = FALSE
    /\ elapsed_cycles = 0 /\ wait_cycles = 0
    /\ active_dma = <<>>
    /\ memory \in InstructionPrograms
    /\ overflow_checks \in BOOLEAN
    /\ call = "set" /\ returned = Ok /\ trace = <<>>
    /\ dma_log = <<>> /\ last_start = <<>>
    /\ env_events = 0
    /\ before = CPU
    /\ BusNew /\ MapperNew /\ PpuNew /\ ClockNew /\ RomNew

NextInstructions == CycleWait \/ CycleInstruction

SpecInstructions == InitInstructions /\ [][NextInstructions]_vars

----------------------------------------------------------------------------
(* Arithmetic, run the same way on programs that load both operands.       *)

\* the bytes added, subtracted and compared
ArithmeticValues == {0, 1, 2, 15, 16, 64, 80, 127, 128, 129, 144, 208, 254, 255}

\* CLC (0x18) or SEC (0x38)
CarryOpcodes == {24, 56}

\* CLC / SEC; LDA #a0; ADC #m
ProgramAdd(carry, a0, m) == with_main_program(<<>>, <<carry, 169, a0, 105, m>>)

\* CLC / SEC; LDA #a0; SBC #m
ProgramSubtract(carry, a0, m) == with_main_program(<<>>, <<carry, 169, a0, 233, m>>)

\* CLC / SEC; LDA #a0; DCP $10, with m at 0x0010
ProgramDecrementCompare(carry, a0, m) ==
    with_memory_at(with_main_program(<<>>, <<carry, 169, a0, 199, 16>>), 16, <<m>>)

ArithmeticPrograms ==
    {ProgramAdd(carry, a0, m) :
        carry \in CarryOpcodes, a0 \in ArithmeticValues, m \in ArithmeticValues}
    \cup {ProgramSubtract(carry, a0, m) :
        carry \in CarryOpcodes, a0 \in ArithmeticValues, m \in ArithmeticValues}
    \cup {ProgramDecrementCompare(carry, a0, m) :
        carry \in CarryOpcodes, a0 \in ArithmeticValues, m \in ArithmeticValues}

\* new(), reset(), then the fields set by the test
InitArithmetic ==
    /\ a = 0 /\ x = 0 /\ y = 0
    /\ sp = 253
    /\ p = StatusSet(StatusDefault, InterruptDisable, TRUE)
    /\ pc = MAIN_PROGRAM
    /\ nmi = FALSE /\ irq = FALSE
    /\ elapsed_cycles = 0 /\ wait_cycles = 0
    /\ active_dma = <<>>
    /\ memory \in ArithmeticPrograms
    /\ overflow_checks \in BOOLEAN
    /\ call = "set" /\ returned = Ok /\ trace = <<>>
    /\ dma_log = <<>> /\ last_start = <<>>
    /\ env_events = 0
    /\ before = CPU
    /\ BusNew /\ MapperNew /\ PpuNew /\ ClockNew /\ RomNew

NextArithmetic == CycleWait \/ CycleInstruction

SpecArithmetic == InitArithmetic /\ [][NextArithmetic]_vars

----------------------------------------------------------------------------
(* The NES CPU bus (CpuBus) over the work RAM, 0x0000..=0x1FFF.  Two        *)
(* sources define it: cpu_bus.rs, the module lib.rs builds, and nes_bus.rs. *)

\* `type WRAM = [u8; 2048]`
WRAM_SIZE == 2048

\* number of accesses made through the bus
MaxBusAccesses == 3
BusAddresses == {0, 1, 2047, 2048, 2049, 6145, 8191}
BusBytes == {1, 2}

\* `(address & 0x0800) as usize` in cpu_bus.rs, `(address & 0x07FF) as usize` in nes_bus.rs
wram_index(address) ==
    IF bus_draft = "cpu_bus" THEN ((address \div 2048) % 2) * 2048
    ELSE address % 2048

\* `self.wram[index]` is bounds-checked: an index past the array panics
OutOfBounds(address) == wram_index(address) >= WRAM_SIZE

Accessed(kind, address, value) ==
    Append(bus_log, [kind |-> kind, address |-> address,
                     value |-> IF OutOfBounds(address) THEN 0 ELSE value,
                     panicked |-> OutOfBounds(address)])

BusRunning ==
    /\ Len(bus_log) < MaxBusAccesses
    /\ bus_log # <<>> => ~bus_log[Len(bus_log)].panicked

\* CpuBus::read_u8 for an address of the work RAM
BusRead(address) ==
    /\ BusRunning
    /\ bus_log' = Accessed("read", address, read_mem(wram, wram_index(address)))
    /\ UNCHANGED <<wram, bus_draft, cpu_vars, mapper_vars, ppu_vars, clock_vars, rom_vars>>

\* CpuBus::write_u8 for an address of the work RAM
BusWrite(address, data) ==
    /\ BusRunning
    /\ wram' = IF OutOfBounds(address) THEN wram
               ELSE write_mem(wram, wram_index(address), data)
    /\ bus_log' = Accessed("write", address, data)
    /\ UNCHANGED <<bus_draft, cpu_vars, mapper_vars, ppu_vars, clock_vars, rom_vars>>

\* MOS6502::new() over an empty RamBus16kb
CpuNew ==
    /\ a = 0 /\ x = 0 /\ y = 0
    /\ p = StatusDefault
    /\ pc = 0 /\ sp = 0
    /\ nmi = FALSE /\ irq = FALSE
    /\ elapsed_cycles = 0 /\ wait_cycles = 0
    /\ active_dma = <<>>
    /\ memory = <<>>
    /\ overflow_checks = FALSE
    /\ call = "new" /\ returned = Ok /\ trace = <<>>
    /\ dma_log = <<>> /\ last_start = <<>>
    /\ env_events = 0
    /\ before = CPU

\* Nestalgic::new: `wram: [0; 2048]`, the CPU as MOS6502::new() leaves it
InitBus ==
    /\ CpuNew
    /\ wram = <<>> /\ bus_draft \in {"cpu_bus", "nes_bus"} /\ bus_log = <<>>
    /\ MapperNew /\ PpuNew /\ ClockNew /\ RomNew

NextBus ==
    \/ \E address \in BusAddresses : BusRead(address)
    \/ \E address \in BusAddresses, data \in BusBytes : BusWrite(address, data)

SpecBus == InitBus /\ [][NextBus]_vars

----------------------------------------------------------------------------
(* The cartridge's NROM mapper (cartridge/nrom.rs): the program RAM behind  *)
(* the CPU window 0x6000..=0x7FFF and the nametables behind the PPU window   *)
(* 0x2000..=0x2FFF.                                                          *)

\* `pub prg_ram: [u8; 2048]`, `pub nametable_1: [u8; 1024]`
PRG_RAM_SIZE == 2048
NAMETABLE_SIZE == 1024
\* `0x6000..=0x7FFF => self.prg_ram[address as usize - 0x6000]`
PRG_RAM_START == 24576
\* `0x2000..=0x23FF => self.nametable_1[address as usize]`
NAMETABLES_START == 8192

\* number of accesses made to the mapper
MaxMapperAccesses == 3
PrgRamAddresses == {24576, 24577, 26623, 26624, 30721}
NametableAddresses == {8192, 8193, 9216, 10240, 11264, 12287}
MapperBytes == {1, 2}

\* the array the match arm of ppu_read_u8 / ppu_write_u8 selects
nametable_of(address) ==
    IF ((address - NAMETABLES_START) \div NAMETABLE_SIZE) % 2 = 0 THEN "nametable_1"
    ELSE "nametable_2"

\* `array[index]` is bounds-checked: `value` is logged unless the index panics
MapperAccessed(kind, address, index, size, value) ==
    Append(mapper_log, [kind |-> kind, address |-> address,
                        value |-> IF index >= size THEN 0 ELSE value,
                        panicked |-> index >= size])

MapperRunning ==
    /\ Len(mapper_log) < MaxMapperAccesses
    /\ mapper_log # <<>> => ~mapper_log[Len(mapper_log)].panicked

\* NROM::cpu_read_u8 for an address of the program RAM window
NROM_cpu_read_u8(address) ==
    /\ MapperRunning
    /\ mapper_log' = MapperAccessed("cpu_read", address, address - PRG_RAM_START, PRG_RAM_SIZE,
                                    read_mem(nrom.prg_ram, address - PRG_RAM_START))
    /\ UNCHANGED <<nrom, mirroring_type, cpu_vars, bus_vars, ppu_vars, clock_vars, rom_vars>>

\* NROM::cpu_write_u8 for an address of the program RAM window
NROM_cpu_write_u8(address, data) ==
    /\ MapperRunning
    /\ nrom' = IF address - PRG_RAM_START >= PRG_RAM_SIZE THEN nrom
               ELSE [nrom EXCEPT !.prg_ram = write_mem(@, address - PRG_RAM_START, data)]
    /\ mapper_log' = MapperAccessed("cpu_write", address, address - PRG_RAM_START,
                                    PRG_RAM_SIZE, data)
    /\ UNCHANGED <<mirroring_type, cpu_vars, bus_vars, ppu_vars, clock_vars, rom_vars>>

\* NROM::ppu_read_u8 for an address of the nametable window
NROM_ppu_read_u8(address) ==
    /\ MapperRunning
    /\ mapper_log' = MapperAccessed("ppu_read", address, address, NAMETABLE_SIZE,
                                    read_mem(nrom[nametable_of(address)], address))
    /\ UNCHANGED <<nrom, mirroring_type, cpu_vars, bus_vars, ppu_vars, clock_vars, rom_vars>>

\* NROM::ppu_write_u8 for an address of the nametable window
NROM_ppu_write_u8(address, data) ==
    /\ MapperRunning
    /\ nrom' = IF address >= NAMETABLE_SIZE THEN nrom
               ELSE [nrom EXCEPT ![nametable_of(address)] = write_mem(@, address, data)]
    /\ mapper_log' = MapperAccessed("ppu_write", address, address, NAMETABLE_SIZE, data)
    /\ UNCHANGED <<mirroring_type, cpu_vars, bus_vars, ppu_vars, clock_vars, rom_vars>>

\* NROM::from_rom for a cartridge whose header asks for either mirroring
InitMapper ==
    /\ CpuNew /\ BusNew
    /\ nrom = NROM_empty /\ mirroring_type \in {"Horizontal", "Vertical"} /\ mapper_log = <<>>
    /\ PpuNew /\ ClockNew /\ RomNew

NextMapper ==
    \/ \E address \in PrgRamAddresses : NROM_cpu_read_u8(address)
    \/ \E address \in PrgRamAddresses, data \in MapperBytes : NROM_cpu_write_u8(address, data)
    \/ \E address \in NametableAddresses : NROM_ppu_read_u8(address)
    \/ \E address \in NametableAddresses, data \in MapperBytes : NROM_ppu_write_u8(address, data)

SpecMapper == InitMapper /\ [][NextMapper]_vars

----------------------------------------------------------------------------
(* The PPU's status, scroll and address registers as the CPU reaches them   *)
(* (rp2c02/mod.rs), at 0x2000..=0x3FFF.                                      *)

PPUSTATUS == 8194
PPUSCROLL == 8197
PPUADDR == 8198

\* number of accesses made to the registers
MaxPpuAccesses == 4
PpuReadAddresses == {8194, 8202, 16378}
PpuWriteAddresses == {8197, 8198, 8205, 16382}
PpuBytes == {18, 52}

\* `0x2008..=0x3FFF => self.cpu_mapped_..._u8(ppu_bus, address & 0x2007, ..)`
register_of(address) == IF address >= 8200 THEN 8192 + (address % 8) ELSE address

\* RP2C02::write_ppuaddr
write_ppuaddr(r, data) ==
    [r EXCEPT !.addr = IF r.addr_latch THEN FromLeBytes(Lo(r.addr), data)
                       ELSE FromLeBytes(data, Hi(r.addr)),
              !.addr_latch = ~r.addr_latch]

\* RP2C02::write_ppuscroll
write_ppuscroll(r, data) ==
    [r EXCEPT !.horizontal_scroll = IF ~r.addr_latch THEN data ELSE @,
              !.vertical_scroll = IF ~r.addr_latch THEN @ ELSE data,
              !.addr_latch = ~r.addr_latch]

\* RP2C02::read_ppustatus (the status byte it returns is not modelled)
read_ppustatus(r) == [r EXCEPT !.addr_latch = FALSE]

\* RP2C02::cpu_mapped_read_u8 for 0x2002 and its mirrors
cpu_mapped_read_u8(address) ==
    /\ Len(ppu_log) < MaxPpuAccesses
    /\ register_of(address) = PPUSTATUS
    /\ ppu' = read_ppustatus(ppu)
    /\ ppu_log' = Append(ppu_log, [kind |-> "read", address |-> address, ppu |-> ppu'])
    /\ UNCHANGED <<cpu_vars, bus_vars, mapper_vars, clock_vars, rom_vars>>

\* RP2C02::cpu_mapped_write_u8 for 0x2005, 0x2006 and their mirrors
cpu_mapped_write_u8(address, data) ==
    /\ Len(ppu_log) < MaxPpuAccesses
    /\ register_of(address) \in {PPUSCROLL, PPUADDR}
    /\ ppu' = IF register_of(address) = PPUADDR THEN write_ppuaddr(ppu, data)
              ELSE write_ppuscroll(ppu, data)
    /\ ppu_log' = Append(ppu_log, [kind |-> "write", address |-> address, value |-> data,
                                   ppu |-> ppu'])
    /\ UNCHANGED <<cpu_vars, bus_vars, mapper_vars, clock_vars, rom_vars>>

InitPpu ==
    /\ CpuNew /\ BusNew /\ MapperNew
    /\ ppu = RP2C02_new /\ ppu_log = <<>>
    /\ ClockNew /\ RomNew

NextPpu ==
    \/ \E address \in PpuReadAddresses : cpu_mapped_read_u8(address)
    \/ \E address \in PpuWriteAddresses, data \in PpuBytes : cpu_mapped_write_u8(address, data)

SpecPpu == InitPpu /\ [][NextPpu]_vars

----------------------------------------------------------------------------
(* The 16-bit helpers of the Bus trait on a RamBus16kb (bus.rs).  Here the  *)
(* trace keeps every call made so far: an entry naming the call, the 8-bit   *)
(* accesses it made, and for read_u16 an entry with what it returned.        *)

\* number of calls of read_u16 and write_u16
MaxWordAccesses == 3
WordAddresses == {43690, 65534, 65535}
WordValues == {18, 48879, 65281}

WordAccessesMade == Len(SelectSeq(trace, LAMBDA e : e.kind \in {"read_u16", "write_u16"}))

\* bus.read_u16(address)
ReadU16(address) ==
    /\ WordAccessesMade < MaxWordAccesses
    /\ trace' = Logged(bus_read_u16(Logged([CPU EXCEPT !.trace = trace],
                                           "read_u16", address, 0), address),
                       "returned", address, read_u16_value(memory, address)).trace
    /\ call' = "read_u16" /\ returned' = Ok /\ before' = CPU
    /\ UNCHANGED <<a, x, y, p, pc, sp, nmi, irq, elapsed_cycles, wait_cycles, active_dma,
                   memory, overflow_checks, dma_log, last_start, env_events>>
    /\ UNCHANGED <<bus_vars, mapper_vars, ppu_vars, clock_vars, rom_vars>>

\* bus.write_u16(address, value)
WriteU16(address, value) ==
    /\ WordAccessesMade < MaxWordAccesses
    /\ memory' = bus_write_u16(CPU, address, value).memory
    /\ trace' = bus_write_u16(Logged([CPU EXCEPT !.trace = trace],
                                     "write_u16", address, value), address, value).trace
    /\ call' = "write_u16" /\ returned' = Ok /\ before' = CPU
    /\ UNCHANGED <<a, x, y, p, pc, sp, nmi, irq, elapsed_cycles, wait_cycles, active_dma,
                   overflow_checks, dma_log, last_start, env_events>>
    /\ UNCHANGED <<bus_vars, mapper_vars, ppu_vars, clock_vars, rom_vars>>

\* RamBus16kb::new()
InitRamBus == CpuNew /\ BusNew /\ MapperNew /\ PpuNew /\ ClockNew /\ RomNew

NextRamBus ==
    \/ \E address \in WordAddresses : ReadU16(address)
    \/ \E address \in WordAddresses, value \in WordValues : WriteU16(address, value)

SpecRamBus == InitRamBus /\ [][NextRamBus]_vars

----------------------------------------------------------------------------
(* The master clock (Nestalgic::tick, lib.rs).  Time is counted in units of *)
(* which master_clock_speed is MasterPeriod; Nestalgic::cycle is counted,    *)
(* its effect on the CPU is the cycle() of Spec.                             *)

\* master_clock_speed, in time units
MasterPeriod == 3
\* tick is not called once Nestalgic::cycle has run MaxMasterCycles times
MaxMasterCycles == 10
Deltas == {1, 2, 3, 4, 6, 7}

RECURSIVE TickLoop(_, _)
\* the `while` loop of tick: the accumulator it leaves and the cycles it ran
TickLoop(accumulator, cycles) ==
    IF accumulator > MasterPeriod THEN TickLoop(accumulator - MasterPeriod, cycles + 1)
    ELSE [time_since_last_master_cycle |-> accumulator, cycles |-> cycles]

\* Nestalgic::tick
tick(delta) ==
    /\ master_cycles < MaxMasterCycles
    /\ time_since_last_master_cycle'
          = TickLoop(time_since_last_master_cycle + delta, 0).time_since_last_master_cycle
    /\ master_cycles' = master_cycles + TickLoop(time_since_last_master_cycle + delta, 0).cycles
    /\ ticked' = [accumulated |-> time_since_last_master_cycle, delta |-> delta,
                  cycles |-> TickLoop(time_since_last_master_cycle + delta, 0).cycles]
    /\ UNCHANGED <<cpu_vars, bus_vars, mapper_vars, ppu_vars, rom_vars>>

\* Nestalgic::new
InitClock == CpuNew /\ BusNew /\ MapperNew /\ PpuNew /\ ClockNew /\ RomNew

NextClock == \E delta \in Deltas : tick(delta)

SpecClock == InitClock /\ [][NextClock]_vars

----------------------------------------------------------------------------
(* The ROM file header (nestalgic_rom).                                    *)

HEADER_SIZE == 16
PRG_ROM_UNIT == 16384
CHR_ROM_UNIT == 8192

\* b"NES\x1A"
Magic == <<78, 69, 83, 26>>

\* the first four bytes of the files read: the magic, and three that are not
FileStarts == {Magic, <<78, 69, 83, 0>>, <<88, 69, 83, 26>>, <<0, 0, 0, 0>>}
PrgSizes == {1, 2}
ChrSizes == {0, 1}
Flags6 == {0, 1, 2, 4, 8, 9, 16, 240, 255}
Flags7 == {0, 8, 16, 240}

\* a file of sixteen header bytes
HeaderBytes(start, prg, chr, flags6, flags7) ==
    start \o <<prg, chr, flags6, flags7, 0, 0, 0, 0, 0, 0, 0, 0>>

\* the files read: whole headers, a header followed by data, and files cut short
RomFiles ==
    {HeaderBytes(start, prg, chr, flags6, flags7) :
        start \in FileStarts, prg \in PrgSizes, chr \in ChrSizes,
        flags6 \in Flags6, flags7 \in Flags7}
    \cup {HeaderBytes(Magic, 1, 1, 0, 0) \o <<234>>}
    \cup {<<>>, Magic, SubSeq(HeaderBytes(Magic, 1, 1, 0, 0), 1, 15)}

\* a byte slice [from..to) of the header
Slice(bytes, from, to) == SubSeq(bytes, from + 1, to)

\* Iterator::take
Take(bytes, n) == SubSeq(bytes, 1, IF Len(bytes) < n THEN Len(bytes) ELSE n)

\* FileType::from_bytes: a slice of three bytes is compared with the four of the magic
FileType_from_bytes(bytes) ==
    LET has_magic_header == Slice(bytes, 0, 3) # Magic
        has_nes2_identifier == BitAnd(bytes[8], 12) = 8
    IN  IF has_magic_header /\ has_nes2_identifier THEN [kind |-> "Ok", file_type |-> "NES2"]
        ELSE IF has_magic_header THEN [kind |-> "Ok", file_type |-> "INES"]
        ELSE [kind |-> "UnknownFileType"]

\* MirroringType::from_ines_byte_6
from_ines_byte_6(byte) ==
    LET mirror_bit == BitAnd(byte, 1) # 0
        four_screen_vram_bit == (BitAnd(byte, 8) \div 8) # 0
    IN  IF four_screen_vram_bit THEN "FourScreen"
        ELSE IF ~mirror_bit THEN "Horizontal"
        ELSE "Vertical"

\* Header::from_bytes_ines: `>>` binds tighter than `&`, so each mask is shifted
\* before it is applied
from_bytes_ines(bytes) ==
    LET mapper_lower_nibble == BitAnd(bytes[7], 240 \div 16)
        mapper_upper_nibble == BitAnd(bytes[8], 240)
    IN  [kind |-> "Ok",
         file_type |-> "INES",
         prg_rom_bytes |-> bytes[5] * PRG_ROM_UNIT,
         chr_rom_bytes |-> bytes[6] * CHR_ROM_UNIT,
         mirroring_type |-> from_ines_byte_6(bytes[7]),
         has_persistent_memory |-> BitAnd(bytes[7], 2 \div 2) # 0,
         has_trainer |-> BitAnd(bytes[7], 4 \div 4) # 0,
         mapper_number |-> BitOr(mapper_upper_nibble, mapper_lower_nibble)]

\* Header::from_bytes_nes2
from_bytes_nes2(bytes) == [from_bytes_ines(bytes) EXCEPT !.file_type = "NES2"]

\* Header::from_bytes
Header_from_bytes(bytes) ==
    IF Len(bytes) < HEADER_SIZE THEN [kind |-> "InvalidHeader"]
    ELSE LET file_type == FileType_from_bytes(Slice(bytes, 0, HEADER_SIZE))
         IN  IF file_type.kind # "Ok" THEN file_type
             ELSE IF file_type.file_type = "INES"
                  THEN from_bytes_ines(Slice(bytes, 0, HEADER_SIZE))
                  ELSE from_bytes_nes2(Slice(bytes, 0, HEADER_SIZE))

\* NESROM::from_bytes, as far as the header
NESROM_from_bytes ==
    /\ header = Unparsed
    /\ header' = Header_from_bytes(Take(rom_bytes, HEADER_SIZE))
    /\ UNCHANGED <<cpu_vars, bus_vars, mapper_vars, ppu_vars, clock_vars, rom_bytes>>

InitRom ==
    /\ CpuNew /\ BusNew /\ MapperNew /\ PpuNew /\ ClockNew
    /\ rom_bytes \in RomFiles
    /\ header = Unparsed

NextRom == NESROM_from_bytes

SpecRom == InitRom /\ [][NextRom]_vars

----------------------------------------------------------------------------
(* Properties of cycle(), reset(), interrupt servicing and the DMA hold.   *)
(* They are stated on the last operation: `before` is what it found,       *)
(* `trace` what it did, the other variables what it left.                  *)

Step == call = "cycle"
Succeeded == returned = Ok

\* a step that gets past the pending counter and the DMA
Ready == Step /\ before.wait_cycles = 0 /\ before.active_dma = <<>>

Indices(kinds) == {i \in 1 .. Len(trace) : trace[i].kind \in kinds}

RegistersKept ==
    <<a, x, y, p, sp, pc>> = <<before.a, before.x, before.y, before.p, before.sp, before.pc>>

\* C1: across cycle() calls, an opcode is fetched for execution only at a
\* moment when wait_cycles is zero, also in the steps that service an NMI or IRQ
FetchOnlyWhenNotWaiting ==
    Step => \A i \in Indices({"fetch"}) : trace[i].wait_cycles = 0

\* C2: cycle() called with wait_cycles = n > 0 leaves wait_cycles = n - 1 and
\* elapsed_cycles + 1 and changes nothing else: no register, no line, not the
\* active DMA, no bus location, and it issues no bus read or write
WaitingDominates ==
    Step /\ before.wait_cycles > 0 =>
        /\ Succeeded
        /\ trace = <<>>
        /\ wait_cycles = before.wait_cycles - 1
        /\ elapsed_cycles = before.elapsed_cycles + 1
        /\ RegistersKept
        /\ nmi = before.nmi /\ irq = before.irq
        /\ active_dma = before.active_dma
        /\ memory = before.memory

\* a waiting step taken with the nmi line asserted and a DMA transfer active
WaitingDominatesWitness ==
    /\ Step /\ before.wait_cycles > 0
    /\ before.nmi /\ before.active_dma # <<>>
    /\ wait_cycles = before.wait_cycles - 1

Decremented == before.wait_cycles > 0 /\ wait_cycles = before.wait_cycles - 1
Serviced == Has(trace, {"NMI", "IRQ"})
Started == Has(trace, {"fetch"})

\* how many of the four things the step did
ThingsDone ==
    Cardinality({k \in 1 .. 4 : \/ k = 1 /\ Decremented
                                \/ k = 2 /\ IsTransfer(trace)
                                \/ k = 3 /\ Serviced
                                \/ k = 4 /\ Started})

\* C3: a cycle() step does exactly one of: decrement the pending counter,
\* transfer one DMA byte, service one interrupt, start one instruction, in this
\* order of priority; a step that services an NMI or IRQ starts no instruction
OneThingPerStep ==
    Step /\ Succeeded =>
        /\ ThingsDone = 1
        /\ before.wait_cycles > 0 => Decremented
        /\ before.wait_cycles = 0 /\ before.active_dma # <<>> => IsTransfer(trace)
        /\ Serviced => ~Started

HeldDuringDma ==
    Step /\ before.active_dma # <<>> =>
        /\ RegistersKept
        /\ ~Has(trace, {"decode", "fetch"})

\* C5: while a DMA transfer is active no instruction is decoded and A, X, Y, P,
\* SP, PC do not change; after the burst the CPU goes on with the instruction
\* that follows the store that latched it (STX absolute: 3 bytes on): it is the
\* next one fetched, or, if an interrupt is serviced first, the one returned to
ResumesAfterTheStore ==
    /\ HeldDuringDma
    /\ \A n \in 1 .. Len(dma_log) :
          dma_log[n].fetched # <<>> =>
              dma_log[n].fetched[1].resumes_at = dma_log[n].store + 3

\* the same of the bursts after which no interrupt is serviced first
ResumesAfterTheStoreUnlessInterrupted ==
    /\ HeldDuringDma
    /\ \A n \in 1 .. Len(dma_log) :
          dma_log[n].fetched # <<>> /\ ~dma_log[n].fetched[1].interrupted =>
              /\ dma_log[n].fetched[1].address = dma_log[n].store + 3
              /\ dma_log[n].fetched[1].address = dma_log[n].pc

\* C6: STX absolute (0x8E, 4 cycles) to the trigger occupies 4 + 1 cycles
\* before the first byte is transferred when elapsed_cycles is even at the
\* write, and 4 + 2 when it is odd
DmaLatchCost ==
    \A n \in 1 .. Len(dma_log) :
        dma_log[n].opcode = 142 /\ dma_log[n].transfers # <<>> =>
            dma_log[n].transfers[1].elapsed - dma_log[n].started
                = 4 + (IF dma_log[n].started % 2 = 0 THEN 1 ELSE 2)

\* the first byte of a burst latched on an odd cycle has just been transferred
DmaLatchCostWitness ==
    /\ dma_log # <<>>
    /\ dma_log[1].opcode = 142
    /\ Len(dma_log[1].transfers) = 1
    /\ dma_log[1].started % 2 = 1
    /\ Step /\ IsTransfer(trace)

\* the NMI was serviced: its vector was read and PC loaded from it
NmiServiced ==
    /\ trace # <<>> /\ trace[1].kind = "NMI"
    /\ \E i \in Indices({"read"}) :
          /\ i + 2 <= Len(trace)
          /\ trace[i].address = NMI_VECTOR_ADDRESS
          /\ trace[i + 1].address = NMI_VECTOR_ADDRESS + 1
          /\ trace[i + 2].pc = read_u16_value(before.memory, NMI_VECTOR_ADDRESS)

\* C7: at a step with wait_cycles = 0 and no DMA active: if nmi is asserted the
\* NMI is serviced, PC is loaded from the vector at 0xFFFA and nmi is false when
\* the step returns; an IRQ is serviced in the step only if nmi was not asserted
NmiServicedFirst ==
    Ready =>
        /\ before.nmi => NmiServiced /\ ~nmi
        /\ Has(trace, {"IRQ"}) => ~before.nmi

\* the same of the steps that succeed: there the NMI is serviced and cleared
NmiServicedFirstWhenOk ==
    Ready /\ Succeeded =>
        /\ before.nmi => NmiServiced /\ ~nmi
        /\ Has(trace, {"IRQ"}) => ~before.nmi
        /\ ~before.nmi => ~nmi

\* the step left what `c` holds in PC, SP, P, memory and the two counters
SameOutcome(c) ==
    /\ <<pc, sp, p>> = <<c.pc, c.sp, c.p>>
    /\ memory = c.memory
    /\ <<wait_cycles, elapsed_cycles>> = <<c.wait_cycles, c.elapsed_cycles>>
    /\ returned = c.result

\* C8: a step taken with irq asserted and InterruptDisable set leaves the same
\* PC, SP, P, memory, wait_cycles and elapsed_cycles as the same step taken with
\* irq deasserted: no push, no vector load, no extra cycle
MaskedIrqIgnored ==
    Step /\ before.irq /\ StatusGet(before.p, InterruptDisable) =>
        /\ SameOutcome(cycle([before EXCEPT !.irq = FALSE]))
        /\ ~Has(trace, {"IRQ"})

\* an instruction has started with irq asserted and InterruptDisable set
MaskedIrqIgnoredWitness ==
    /\ Ready /\ Succeeded
    /\ before.irq /\ ~before.nmi /\ StatusGet(before.p, InterruptDisable)
    /\ Started

\* interrupt() entered at trace[i] went on to push
Completed(i) == \E j \in (i + 1) .. Len(trace) : trace[j].kind = "write"

\* its first push
PushIndex(i) ==
    CHOOSE j \in (i + 1) .. Len(trace) :
        trace[j].kind = "write" /\ \A k \in (i + 1) .. (j - 1) : trace[k].kind # "write"

\* the registers right after trace[k]
After(k) ==
    IF k < Len(trace) THEN [pc |-> trace[k + 1].pc, sp |-> trace[k + 1].sp, p |-> trace[k + 1].p]
    ELSE [pc |-> pc, sp |-> sp, p |-> p]

\* the three pushes and the vector load of an interrupt of `kind` entered with
\* stack pointer S, the first push being trace[j]
PushesAndLoads(kind, S, j) ==
    /\ j + 4 <= Len(trace)
    /\ trace[j].kind = "write"
    /\ trace[j].address = 256 + S
    /\ trace[j].value = Hi(trace[j].pc)
    /\ trace[j + 1].kind = "write"
    /\ trace[j + 1].address = 256 + ((S + 255) % 256)
    /\ trace[j + 1].value = Lo(trace[j].pc)
    /\ trace[j + 2].kind = "write"
    /\ trace[j + 2].address = 256 + ((S + 254) % 256)
    /\ Bit(trace[j + 2].value, Break) = (IF kind = "BRK" THEN 1 ELSE 0)
    /\ \A b \in (0 .. 7) \ {Break} : Bit(trace[j + 2].value, b) = Bit(trace[j].p, b)
    /\ trace[j + 3].kind = "read" /\ trace[j + 3].address = vector_address(kind)
    /\ trace[j + 4].kind = "read" /\ trace[j + 4].address = vector_address(kind) + 1
    /\ After(j + 4).sp = (S + 253) % 256
    /\ StatusGet(After(j + 4).p, InterruptDisable)
    /\ After(j + 4).pc = read_u16_value(memory, vector_address(kind))
    /\ vector_address(kind) = (IF kind = "NMI" THEN 65530 ELSE 65534)

\* C9: servicing NMI, IRQ or BRK with stack pointer S writes PCH to 0x0100+S,
\* PCL to 0x0100+(S-1) and P to 0x0100+(S-2) (mod 256) in this order, the pushed
\* P with Break = 1 for BRK and 0 otherwise; afterwards SP = S-3, InterruptDisable
\* is set and PC is the word at 0xFFFA (NMI) or 0xFFFE (IRQ, BRK)
InterruptEntry ==
    Step => \A i \in Indices({"NMI", "IRQ", "BRK"}) :
                Completed(i) => PushesAndLoads(trace[i].kind, trace[i].sp, PushIndex(i))

\* a BRK serviced with SP = 1: the pushes wrap around the stack page
InterruptEntryWitness ==
    /\ Step /\ Succeeded
    /\ \E i \in Indices({"BRK"}) : Completed(i) /\ trace[i].sp = 1
    /\ sp = 254

\* C10: reset() issues no bus write and leaves A, X, Y and every memory location
\* unchanged; it decrements SP by 3 modulo 256 (0x00 becomes 0xFD), sets
\* InterruptDisable and loads PC from the word at 0xFFFC
ResetWritesNothing ==
    call = "reset" =>
        /\ ~Has(trace, {"write", "latch"})
        /\ memory = before.memory
        /\ <<a, x, y>> = <<before.a, before.x, before.y>>
        /\ sp = (before.sp + 253) % 256
        /\ before.sp = 0 => sp = 253
        /\ StatusGet(p, InterruptDisable)
        /\ pc = read_u16_value(before.memory, RESET_VECTOR_ADDRESS)

\* the same with the last four lines only of the calls that succeed
ResetWritesNothingWhenOk ==
    call = "reset" =>
        /\ ~Has(trace, {"write", "latch"})
        /\ memory = before.memory
        /\ <<a, x, y>> = <<before.a, before.x, before.y>>
        /\ Succeeded =>
            /\ sp = (before.sp + 253) % 256
            /\ before.sp = 0 => sp = 253
            /\ StatusGet(p, InterruptDisable)
            /\ pc = read_u16_value(before.memory, RESET_VECTOR_ADDRESS)

----------------------------------------------------------------------------
(* Cycle accounting.                                                       *)

\* an interrupt line is asserted that interrupt() does not mask
InterruptDue == before.nmi \/ (before.irq /\ ~StatusGet(before.p, InterruptDisable))

\* C11: servicing a RESET, NMI or IRQ always succeeds, whatever bytes are stored
\* at the PC that was interrupted, and charges exactly 7 cycles to the pending
\* counter; elapsed_cycles is 7 when the first instruction after a power-on
\* reset starts
ServicingCostsSeven ==
    /\ call = "reset" => Succeeded /\ wait_cycles = before.wait_cycles + 7
    /\ Ready /\ InterruptDue =>
          /\ Has(trace, {"NMI", "IRQ"}) /\ Has(trace, {"fetch"})
          /\ First(trace, {"fetch"}).wait_cycles = 7
    /\ Step /\ env_events = 0 /\ Started => before.elapsed_cycles >= 7
    /\ Step /\ env_events = 0 /\ before.elapsed_cycles = 7 => Started

\* the part of it that the power-on reset of an all-zero low memory satisfies
PowerOnResetCostsSeven ==
    /\ call = "reset" /\ before.pc = 0 /\ before.elapsed_cycles = 0 =>
          Succeeded /\ wait_cycles = before.wait_cycles + 7
    /\ Step /\ env_events = 0 /\ Started => before.elapsed_cycles >= 7
    /\ Step /\ env_events = 0 /\ before.elapsed_cycles = 7 => Started

----------------------------------------------------------------------------
(* The status register and the stack.                                      *)

\* the step started the instruction with this opcode byte, and nothing before it
Executed(byte) ==
    /\ Step /\ Succeeded /\ Started /\ ~Serviced
    /\ First(trace, {"fetch"}).value = byte

\* the bus writes and reads of the step, in order
Written == SelectSeq(trace, LAMBDA e : e.kind = "write")
ReadsMade == SelectSeq(trace, LAMBDA e : e.kind = "read")

\* the stack cell at stack pointer s
StackAddress(s) == STACK_START_ADDRESS + (s % 256)

\* the byte a pull found on top of the stack
Pulled == read_mem(before.memory, StackAddress(before.sp + 1))

\* C13: after reset and after any sequence of executed instructions, bit 5 of
\* P (the always-one bit) is 1
AlwaysOneBit == Bit(p, Unused) = 1

\* PLP has loaded a byte whose bit 5 is 0
AlwaysOneBitWitness ==
    /\ Executed(40)
    /\ Bit(Pulled, Unused) = 0
    /\ Bit(p, Unused) = 1

\* C14: Break has no storage: in every reachable state, after any sequence of
\* instructions and interrupts (BRK, NMI, IRQ, PHP, PLP, RTI), bit 4 of the P
\* register is 0; a Break bit of 1 exists only in bytes written to the stack
BreakNeverStored == Bit(p, Break) = 0

\* the flags other than Break and the always-one bit
StoredFlags == {Carry, Zero, InterruptDisable, DecimalMode, Overflow, Negative}

\* C15: PHP writes to the stack P with Break set to 1 and leaves the P register
\* unchanged; PLP and RTI loading the stack byte b leave P with Break cleared,
\* bit 5 set and the other six flags as in b
PushAndPullStatus ==
    /\ Executed(8) =>
          /\ Len(Written) = 1
          /\ Written[1].address = StackAddress(before.sp)
          /\ Bit(Written[1].value, Break) = 1
          /\ \A flag \in StoredFlags \cup {Unused} :
                Bit(Written[1].value, flag) = Bit(before.p, flag)
          /\ p = before.p
    /\ Executed(40) \/ Executed(64) =>
          /\ Bit(p, Break) = 0 /\ Bit(p, Unused) = 1
          /\ \A flag \in StoredFlags : Bit(p, flag) = Bit(Pulled, flag)

\* PHP pushed P, and then PLP loaded the byte 0x10 (Break alone) that PHA pushed
PushAndPullStatusWitness ==
    /\ Executed(40)
    /\ Len(last_start) >= 3
    /\ last_start[3].opcode = 8 /\ last_start[2].opcode = 72
    /\ Pulled = 16
    /\ p = 32

\* C16: for every A and every stack pointer S (S = 0x00 included, where the
\* pointer wraps to 0xFF) PHA stores A at 0x0100+S and decrements SP, a PLA that
\* follows restores A and returns SP to S, and k pushes followed by k pulls
\* return the bytes last in, first out
PushAndPull ==
    /\ Executed(72) =>
          /\ Len(Written) = 1
          /\ Written[1].address = StackAddress(before.sp)
          /\ Written[1].value = before.a
          /\ sp = (before.sp + 255) % 256
    /\ Executed(104) /\ Len(last_start) >= 2 /\ last_start[2].opcode = 72 =>
          a = last_start[2].a /\ sp = last_start[2].sp
    /\ /\ Executed(104) /\ Len(last_start) >= 4
       /\ last_start[2].opcode = 104 /\ last_start[3].opcode = 8
       /\ last_start[4].opcode = 72
       => /\ last_start[2].after.a = StatusSet(last_start[3].p, Break, TRUE)
          /\ a = last_start[4].a /\ sp = last_start[4].sp

\* PHA; PHP; PLA; PLA from S = 0x00 with A = 0xCF: the pushes wrap to 0x01FF
PushAndPullWitness ==
    /\ Executed(104) /\ Len(last_start) >= 4
    /\ last_start[2].opcode = 104 /\ last_start[3].opcode = 8
    /\ last_start[4].opcode = 72
    /\ last_start[4].sp = 0 /\ last_start[4].a = 207
    /\ last_start[3].sp = 255
    /\ a = 207 /\ sp = 0

\* C17: JSR at address p with stack pointer S stores the high byte of p + 2 at
\* 0x0100+S and the low byte at 0x0100+S-1 (within the stack page), then sets PC
\* to its target; the RTS that follows sets PC = p + 3 and restores SP = S
CallAndReturn ==
    /\ Executed(32) =>
          /\ Len(Written) = 2
          /\ Written[1].address = StackAddress(before.sp)
          /\ Written[1].value = Hi(before.pc + 2)
          /\ Written[2].address = StackAddress(before.sp + 255)
          /\ Written[2].value = Lo(before.pc + 2)
          /\ pc = read_u16_value(before.memory, before.pc + 1)
    /\ Executed(96) /\ Len(last_start) >= 2 /\ last_start[2].opcode = 32 =>
          pc = last_start[2].pc + 3 /\ sp = last_start[2].sp

\* RTS after the JSR at 0xF0FE (p + 2 = 0xF100) entered with S = 0x00
CallAndReturnWitness ==
    /\ Executed(96) /\ Len(last_start) >= 2 /\ last_start[2].opcode = 32
    /\ last_start[2].pc = MAIN_PROGRAM + 254 /\ last_start[2].sp = 0
    /\ before.sp = 254
    /\ pc = MAIN_PROGRAM + 257 /\ sp = 0

----------------------------------------------------------------------------
(* Addressing.                                                             *)

\* the operand bytes of the instruction the step started
OperandByte == read_mem(before.memory, WrappingAdd16(before.pc, 1))
OperandWord == read_u16_value(before.memory, WrappingAdd16(before.pc, 1))

\* where JMP (pointer) reads the high byte of its target
HighByteAddress(pointer) == Hi(pointer) * 256 + ((Lo(pointer) + 1) % 256)

\* C18: JMP (A) reads the low byte of its target from A and the high byte from
\* (A & 0xFF00) | ((A + 1) & 0x00FF): from A & 0xFF00, not A + 1, when the low
\* byte of A is 0xFF (JMP ($02FF) with 0x03 at 0x02FF, 0xCC at 0x0200 and 0xAA
\* at 0x0300 sets PC = 0xCC03), and from A + 1 otherwise
IndirectJump ==
    Executed(108) =>
        /\ Len(ReadsMade) = 5
        /\ ReadsMade[4].address = OperandWord
        /\ ReadsMade[5].address = HighByteAddress(OperandWord)
        /\ pc = FromLeBytes(ReadsMade[4].value, ReadsMade[5].value)
        /\ Lo(OperandWord) = 255 =>
              /\ ReadsMade[5].address = OperandWord - 255
              /\ ReadsMade[5].address # OperandWord + 1
        /\ Lo(OperandWord) # 255 => ReadsMade[5].address = OperandWord + 1
        /\ OperandWord = 767 => pc = 52227

\* JMP ($02FF) has set PC = 0xCC03
IndirectJumpWitness ==
    /\ Executed(108)
    /\ OperandWord = 767
    /\ before.memory[767] = 3 /\ before.memory[512] = 204 /\ before.memory[768] = 170
    /\ pc = 52227

\* C19: ZeroPageX and ZeroPageY address (M + index) mod 256, never above 0x00FF;
\* Indexed-Indirect has its pointer at (M + X) mod 256, and both it and
\* Indirect-Indexed read the pointer's high byte at (pointer + 1) mod 256
ZeroPageWraps ==
    /\ Executed(181) =>
          /\ Len(ReadsMade) = 4
          /\ ReadsMade[4].address = (OperandByte + before.x) % 256
    /\ Executed(182) =>
          /\ Len(ReadsMade) = 4
          /\ ReadsMade[4].address = (OperandByte + before.y) % 256
    /\ Executed(161) =>
          /\ Len(ReadsMade) = 5
          /\ ReadsMade[3].address = (OperandByte + before.x) % 256
          /\ ReadsMade[4].address = (OperandByte + before.x + 1) % 256
          /\ ReadsMade[5].address = FromLeBytes(ReadsMade[3].value, ReadsMade[4].value)
    /\ Executed(177) =>
          /\ Len(ReadsMade) = 5
          /\ ReadsMade[3].address = OperandByte
          /\ ReadsMade[4].address = (OperandByte + 1) % 256
          /\ ReadsMade[5].address
                = (FromLeBytes(ReadsMade[3].value, ReadsMade[4].value) + before.y) % 65536

\* LDA ($F0,X) with X = 0x0F: the pointer is at 0xFF and its high byte at 0x00
ZeroPageWrapsWitness ==
    /\ Executed(161)
    /\ OperandByte = 240 /\ before.x = 15
    /\ ReadsMade[3].address = 255 /\ ReadsMade[4].address = 0
    /\ ReadsMade[5].address = FromLeBytes(128, 64)

----------------------------------------------------------------------------
(* The work RAM on the CPU bus.                                            *)

\* the writes before access n to an address 2 KiB apart from `address`
WritesBefore(address, n) ==
    {m \in 1 .. (n - 1) : /\ bus_log[m].kind = "write"
                          /\ bus_log[m].address % WRAM_SIZE = address % WRAM_SIZE}

\* the byte a mirrored work RAM holds at `address` when access n is made
Mirrored(address, n) ==
    IF WritesBefore(address, n) = {} THEN 0
    ELSE bus_log[CHOOSE m \in WritesBefore(address, n) :
                     \A k \in WritesBefore(address, n) : k <= m].value

\* C20: the 2 KiB work RAM is mirrored every 2 KiB across 0x0000-0x1FFF: after
\* write(a, b) a read of any a' congruent to a modulo 0x0800 returns b, reads
\* of the other addresses are unaffected, and no access in the range fails
WorkRamMirrored ==
    \A n \in 1 .. Len(bus_log) :
        /\ ~bus_log[n].panicked
        /\ bus_log[n].kind = "read" => bus_log[n].value = Mirrored(bus_log[n].address, n)

\* the bus of nes_bus.rs mirrors the work RAM
WorkRamMirroredByNesBus == bus_draft = "nes_bus" => WorkRamMirrored

\* a byte written at 0x0001 read back at 0x1801 through the bus of nes_bus.rs
WorkRamMirroredByNesBusWitness ==
    /\ bus_draft = "nes_bus" /\ Len(bus_log) = 3
    /\ bus_log[1].kind = "write" /\ bus_log[1].address = 1 /\ bus_log[1].value = 2
    /\ bus_log[2].kind = "write" /\ bus_log[2].address = 2048
    /\ bus_log[3].kind = "read" /\ bus_log[3].address = 6145 /\ bus_log[3].value = 2

\* the bus of cpu_bus.rs keeps one cell: a byte written at 0x0000 is read at 0x0001
WorkRamAliased ==
    /\ bus_draft = "cpu_bus" /\ Len(bus_log) = 2
    /\ bus_log[1].kind = "write" /\ bus_log[1].address = 0 /\ bus_log[1].value = 1
    /\ bus_log[2].kind = "read" /\ bus_log[2].address = 1 /\ bus_log[2].value = 1

\* the bus of cpu_bus.rs indexes the 2048-byte array at 2048 for address 0x0800
WorkRamOutOfBounds ==
    /\ bus_draft = "cpu_bus" /\ Len(bus_log) = 1
    /\ bus_log[1].address = 2048 /\ bus_log[1].panicked

----------------------------------------------------------------------------
(* The NROM mapper.                                                        *)

\* the writes of `kind` before access n to an address that `Same` makes the same byte
LastWrite(kind, n, Same(_)) ==
    IF {m \in 1 .. (n - 1) : mapper_log[m].kind = kind /\ Same(mapper_log[m].address)} = {}
    THEN 0
    ELSE mapper_log[CHOOSE m \in 1 .. (n - 1) :
                       /\ mapper_log[m].kind = kind /\ Same(mapper_log[m].address)
                       /\ \A k \in (m + 1) .. (n - 1) :
                             ~(mapper_log[k].kind = kind /\ Same(mapper_log[k].address))].value

\* C21: the CPU window 0x6000-0x7FFF is 2 KiB of program RAM mirrored four
\* times: every cpu_read and cpu_write in the window succeeds, and a cpu_read
\* returns the byte last written to an address congruent modulo 0x0800
PrgRamMirrored ==
    \A n \in 1 .. Len(mapper_log) :
        /\ mapper_log[n].kind \in {"cpu_read", "cpu_write"} => ~mapper_log[n].panicked
        /\ mapper_log[n].kind = "cpu_read" =>
              mapper_log[n].value
                 = LastWrite("cpu_write", n,
                             LAMBDA w : w % PRG_RAM_SIZE = mapper_log[n].address % PRG_RAM_SIZE)

\* the first 2 KiB of the window do hold what was written there
PrgRamFirstMirror ==
    \A n \in 1 .. Len(mapper_log) :
        mapper_log[n].kind = "cpu_read" /\ ~mapper_log[n].panicked =>
            /\ mapper_log[n].address < PRG_RAM_START + PRG_RAM_SIZE
            /\ mapper_log[n].value
                  = LastWrite("cpu_write", n, LAMBDA w : w = mapper_log[n].address)

\* a byte written at 0x6001 and read back there; the read of 0x7801 then panics
PrgRamOutOfBounds ==
    /\ Len(mapper_log) = 3
    /\ mapper_log[1].kind = "cpu_write" /\ mapper_log[1].address = 24577
    /\ mapper_log[1].value = 2
    /\ mapper_log[2].kind = "cpu_read" /\ mapper_log[2].address = 24577
    /\ mapper_log[2].value = 2
    /\ mapper_log[3].kind = "cpu_read" /\ mapper_log[3].address = 30721
    /\ mapper_log[3].panicked

\* the 1 KiB slot of a nametable address, and the page the mirroring gives the slot
NametableSlot(address) == (address - NAMETABLES_START) \div NAMETABLE_SIZE
NametablePage(address) ==
    IF mirroring_type = "Horizontal" THEN NametableSlot(address) \div 2
    ELSE NametableSlot(address) % 2

\* C22: PPU addresses 0x2000-0x2FFF are two 1 KiB nametable pages: every
\* ppu_read and ppu_write in the window succeeds, and two addresses with the
\* same offset in their slot are the same byte exactly when their slots are
\* mirrored (horizontal: 0x2000 with 0x2400, 0x2800 with 0x2C00; vertical:
\* 0x2000 with 0x2800, 0x2400 with 0x2C00)
NametablesMirrored ==
    \A n \in 1 .. Len(mapper_log) :
        /\ mapper_log[n].kind \in {"ppu_read", "ppu_write"} => ~mapper_log[n].panicked
        /\ mapper_log[n].kind = "ppu_read" =>
              mapper_log[n].value
                 = LastWrite("ppu_write", n,
                             LAMBDA w : /\ w % NAMETABLE_SIZE
                                            = mapper_log[n].address % NAMETABLE_SIZE
                                        /\ NametablePage(w) = NametablePage(mapper_log[n].address))

\* no access to the nametable window gets past the array's bounds check
NametablesOutOfBounds ==
    \A n \in 1 .. Len(mapper_log) :
        mapper_log[n].kind \in {"ppu_read", "ppu_write"} => mapper_log[n].panicked

\* a write to 0x2000 has panicked, under either mirroring
NametableWritePanicked ==
    /\ Len(mapper_log) = 1
    /\ mapper_log[1].kind = "ppu_write" /\ mapper_log[1].address = 8192
    /\ mapper_log[1].panicked

----------------------------------------------------------------------------
(* The PPU's address latch.                                                *)

\* the PPU as access n found it
PpuBefore(n) == IF n = 1 THEN RP2C02_new ELSE ppu_log[n - 1].ppu

WritesTo(n, register) ==
    /\ n \in 1 .. Len(ppu_log)
    /\ ppu_log[n].kind = "write" /\ register_of(ppu_log[n].address) = register

\* the latch is one bit shared by 0x2005 and 0x2006: it toggles on every write
\* to either, a read of 0x2002 or of a mirror clears it, and 0x2005 takes the
\* horizontal scroll on the first write and the vertical scroll on the second
AddressLatchShared ==
    \A n \in 1 .. Len(ppu_log) :
        /\ ppu_log[n].kind = "read" => ~ppu_log[n].ppu.addr_latch
        /\ ppu_log[n].kind = "write" => ppu_log[n].ppu.addr_latch = ~PpuBefore(n).addr_latch
        /\ WritesTo(n, PPUSCROLL) /\ ~PpuBefore(n).addr_latch =>
              ppu_log[n].ppu.horizontal_scroll = ppu_log[n].value
        /\ WritesTo(n, PPUSCROLL) /\ PpuBefore(n).addr_latch =>
              ppu_log[n].ppu.vertical_scroll = ppu_log[n].value

\* after a read of 0x2002, writing h then l to 0x2006 gives address h * 256 + l
HighByteFirst ==
    \A n \in 1 .. Len(ppu_log) :
        /\ ppu_log[n].kind = "read" /\ WritesTo(n + 1, PPUADDR) =>
              Hi(ppu_log[n + 1].ppu.addr) = ppu_log[n + 1].value
        /\ ppu_log[n].kind = "read" /\ WritesTo(n + 1, PPUADDR) /\ WritesTo(n + 2, PPUADDR) =>
              ppu_log[n + 2].ppu.addr = ppu_log[n + 1].value * 256 + ppu_log[n + 2].value

\* C23: after a read of 0x2002 the first write to 0x2006 sets the high byte of
\* the VRAM address and the second the low byte; the latch is a single bit
\* shared with 0x2005, toggles on every write to either register, and is reset
\* by any read of 0x2002 or of one of its mirrors
AddressLatch == HighByteFirst /\ AddressLatchShared

\* what write_ppuaddr does: the first write is the low byte, the second the high
LowByteFirst ==
    \A n \in 1 .. Len(ppu_log) :
        ppu_log[n].kind = "read" /\ WritesTo(n + 1, PPUADDR) /\ WritesTo(n + 2, PPUADDR) =>
            ppu_log[n + 2].ppu.addr = ppu_log[n + 2].value * 256 + ppu_log[n + 1].value

\* read 0x2002, write 0x12 then 0x34 to 0x2006: the address is 0x3412
AddressBytesSwapped ==
    /\ Len(ppu_log) = 3
    /\ ppu_log[1].kind = "read" /\ ppu_log[1].address = PPUSTATUS
    /\ ppu_log[2].kind = "write" /\ ppu_log[2].address = PPUADDR /\ ppu_log[2].value = 18
    /\ ppu_log[3].kind = "write" /\ ppu_log[3].address = PPUADDR /\ ppu_log[3].value = 52
    /\ ppu.addr = 13330

\* a write to 0x2005, a read of the mirror 0x3FFA, then two writes to 0x2006
LatchResetByMirror ==
    /\ Len(ppu_log) = 4
    /\ ppu_log[1].kind = "write" /\ ppu_log[1].address = PPUSCROLL
    /\ ppu_log[1].ppu.addr_latch
    /\ ppu_log[2].kind = "read" /\ ppu_log[2].address = 16378
    /\ WritesTo(3, PPUADDR) /\ WritesTo(4, PPUADDR)
    /\ ~ppu.addr_latch

----------------------------------------------------------------------------
(* The 16-bit bus helpers.                                                 *)

\* entry i + n of the trace is an access of `kind` at `address`
AccessAt(i, kind, address) ==
    i <= Len(trace) /\ trace[i].kind = kind /\ trace[i].address = address

\* C24: the 16-bit bus helpers are little-endian with the high byte at
\* (a + 1) mod 65536: read_u16(a) = read_u8(a) + 256 * read_u8((a + 1) mod 65536),
\* write_u16(a, v) stores the low byte at a and the high byte at (a + 1) mod 65536,
\* and write_u16(a, v) followed by read_u16(a) returns v, a = 0xFFFF included
WordsLittleEndian ==
    \A i \in 1 .. Len(trace) :
        /\ trace[i].kind = "read_u16" =>
              /\ AccessAt(i + 1, "read", trace[i].address)
              /\ AccessAt(i + 2, "read", (trace[i].address + 1) % 65536)
              /\ AccessAt(i + 3, "returned", trace[i].address)
              /\ trace[i + 3].value = trace[i + 1].value + 256 * trace[i + 2].value
        /\ trace[i].kind = "write_u16" =>
              /\ AccessAt(i + 1, "write", trace[i].address)
              /\ trace[i + 1].value = trace[i].value % 256
              /\ AccessAt(i + 2, "write", (trace[i].address + 1) % 65536)
              /\ trace[i + 2].value = trace[i].value \div 256
              /\ i + 2 = Len(trace) =>
                    /\ read_mem(memory, (trace[i].address + 1) % 65536) = trace[i].value \div 256
                    /\ trace[i].address # (trace[i].address + 1) % 65536
                    /\ read_mem(memory, trace[i].address) = trace[i].value % 256
        /\ trace[i].kind = "write_u16" /\ AccessAt(i + 3, "read_u16", trace[i].address) =>
              trace[i + 6].value = trace[i].value

\* write_u16(0xFFFF, 0xBEEF) then read_u16(0xFFFF): the high byte is at 0x0000
WordsLittleEndianWitness ==
    /\ Len(trace) = 7
    /\ trace[1].kind = "write_u16" /\ trace[1].address = 65535 /\ trace[1].value = 48879
    /\ AccessAt(4, "read_u16", 65535)
    /\ trace[6].address = 0 /\ trace[6].value = 190
    /\ trace[7].kind = "returned" /\ trace[7].value = 48879
    /\ memory[0] = 190 /\ memory[65535] = 239

----------------------------------------------------------------------------
(* The master clock.                                                       *)

\* C25: tick(dt) adds dt to the accumulator and steps the emulator for as long
\* as the accumulator is at least one master period, subtracting a period per
\* step: after every tick the accumulator is strictly less than a period and
\* the steps performed are floor((accumulator before + dt) / period)
TickRunsWholePeriods ==
    ticked # <<>> =>
        /\ time_since_last_master_cycle < MasterPeriod
        /\ ticked.cycles = (ticked.accumulated + ticked.delta) \div MasterPeriod

\* what the loop of tick keeps: it stops at a whole period instead of running it
TickKeepsAWholePeriod ==
    ticked # <<>> =>
        /\ time_since_last_master_cycle \in 1 .. MasterPeriod
        /\ ticked.accumulated + ticked.delta
              = ticked.cycles * MasterPeriod + time_since_last_master_cycle

\* tick(period) on a new console runs no cycle and leaves a whole period
WholePeriodLeft ==
    /\ ticked = [accumulated |-> 0, delta |-> MasterPeriod, cycles |-> 0]
    /\ master_cycles = 0
    /\ time_since_last_master_cycle = MasterPeriod

----------------------------------------------------------------------------
(* Invalid opcodes.                                                        *)

\* the step decoded a byte the decode table does not assign
DecodedUnassigned ==
    /\ Step
    /\ \E i \in Indices({"decode"}) : SignatureTryFrom(trace[i].value) = None

----------------------------------------------------------------------------
(* The unofficial opcodes.                                                 *)

UnofficialOperations == {"LAX", "SAX", "DCP", "ISC", "SLO", "SRE", "RLA", "RRA"}
MultiByteNops == {"Immediate", "ZeroPage", "ZeroPageX", "Absolute", "AbsoluteX"}

\* the decode table assigns some byte to the operation / to a NOP of the mode
Assigned(operation) == \E byte \in 0 .. 255 : SignatureTryFrom(byte).opcode = operation
AssignedNop(mode) == \E byte \in 0 .. 255 : SignatureTryFrom(byte) = Sig("NOP", mode)

\* the step started an instruction with this opcode byte at the start of the program
DecodedFirst(byte) ==
    /\ Step /\ before.pc = MAIN_PROGRAM /\ before.wait_cycles = 0
    /\ read_mem(before.memory, MAIN_PROGRAM) = byte

\* C27: the decode table assigns at least one opcode byte to each of LAX, SAX,
\* DCP, ISC, SLO, SRE, RLA and RRA and to the multi-byte NOPs (immediate,
\* zero-page, zero-page-X, absolute, absolute-X), so none of these operations
\* is reported as an invalid opcode
UnofficialOpcodesAssigned ==
    /\ \A operation \in UnofficialOperations : Assigned(operation)
    /\ \A mode \in MultiByteNops : AssignedNop(mode)
    /\ \A byte \in UnofficialOpcodes :
          DecodedFirst(byte) => returned.kind # "InvalidInstruction"

\* the part of the table that is there: LAX, SAX, DCP, ISC and the NOPs
SomeUnofficialOpcodesAssigned ==
    /\ \A operation \in {"LAX", "SAX", "DCP", "ISC"} : Assigned(operation)
    /\ \A mode \in MultiByteNops : AssignedNop(mode)
    /\ \A byte \in UnofficialOpcodes \ {7, 71, 39, 103} :
          DecodedFirst(byte) => returned = Ok
    /\ \A operation \in {"SLO", "SRE", "RLA", "RRA"} : ~Assigned(operation)

\* SLO $10 (0x07) is reported as InvalidInstruction(0x07)
SloReportedInvalid ==
    /\ DecodedFirst(7)
    /\ returned = Err("InvalidInstruction", 7)
    /\ pc = MAIN_PROGRAM

\* LAX $10 (0xA7) has loaded 0x05 into A and X
LaxExecuted ==
    /\ DecodedFirst(167) /\ returned = Ok
    /\ a = 5 /\ x = 5

----------------------------------------------------------------------------
(* Read-modify-write.                                                      *)

\* the bus reads and writes of the step, in order
BusAccesses == SelectSeq(trace, LAMBDA e : e.kind \in {"read", "write"})

\* the last three bus accesses of the step: the read and the two writes
ModifyAccess(n) == BusAccesses[Len(BusAccesses) - 3 + n]

\* INC, ASL, DEC, LSR on a byte
Modified(byte, v) ==
    CASE byte = 230 -> (v + 1) % 256
      [] byte = 30  -> (2 * v) % 256
      [] byte = 214 -> (v + 255) % 256
      [] byte = 78  -> v \div 2

\* the read, then two writes at the address read, the second of f(v), which stays
ReadThenTwoWrites(byte) ==
    /\ Len(BusAccesses) >= 3
    /\ ModifyAccess(1).kind = "read" /\ ModifyAccess(2).kind = "write"
    /\ ModifyAccess(3).kind = "write"
    /\ ModifyAccess(2).address = ModifyAccess(1).address
    /\ ModifyAccess(3).address = ModifyAccess(1).address
    /\ ModifyAccess(1).value = read_mem(before.memory, ModifyAccess(1).address)
    /\ ModifyAccess(3).value = Modified(byte, ModifyAccess(1).value)
    /\ Len(Written) = 2
    /\ read_mem(memory, ModifyAccess(1).address) = Modified(byte, ModifyAccess(1).value)

\* C30: a read-modify-write on a memory target holding v produces on the bus,
\* in this order, one read of the address, a write of v (the old value), then
\* a write of f(v) (the new value); the memory holds f(v) afterwards
ModifyWritesOldThenNew ==
    \A byte \in {230, 30, 214, 78} :
        Executed(byte) =>
            /\ ReadThenTwoWrites(byte)
            /\ ModifyAccess(2).value = ModifyAccess(1).value

\* what try_modify does: both writes carry f(v)
ModifyWritesNewTwice ==
    \A byte \in {230, 30, 214, 78} :
        Executed(byte) =>
            /\ ReadThenTwoWrites(byte)
            /\ ModifyAccess(2).value = ModifyAccess(3).value

\* INC $10 on 0x05: the bus sees read 0x05, write 0x06, write 0x06
IncWroteNewTwice ==
    /\ Executed(230)
    /\ ModifyAccess(1).address = 16 /\ ModifyAccess(1).value = 5
    /\ ModifyAccess(2).value = 6 /\ ModifyAccess(3).value = 6
    /\ memory[16] = 6

----------------------------------------------------------------------------
(* The ROM file header.                                                    *)

\* the file has been parsed
Parsed == header # Unparsed

\* the file has sixteen header bytes
WholeHeader == Len(rom_bytes) >= HEADER_SIZE

\* the file starts with 'N', 'E', 'S', 0x1A
HasMagic == Len(rom_bytes) >= 4 /\ SubSeq(rom_bytes, 1, 4) = Magic

\* C28: parsing accepts a file only if its first four bytes are 'N', 'E', 'S',
\* 0x1A: any other sixteen-byte header yields UnknownFileType, and a file of
\* fewer than sixteen bytes yields InvalidHeader
MagicRequired ==
    Parsed =>
        /\ ~WholeHeader => header.kind = "InvalidHeader"
        /\ WholeHeader /\ ~HasMagic => header.kind = "UnknownFileType"
        /\ header.kind = "Ok" => HasMagic

\* what the parser does: short files are rejected, every whole header is accepted
EveryWholeHeaderAccepted ==
    Parsed =>
        /\ ~WholeHeader => header.kind = "InvalidHeader"
        /\ WholeHeader => header.kind = "Ok"

\* a header starting with four zero bytes has been accepted as iNES
ZeroMagicAccepted ==
    /\ rom_bytes = HeaderBytes(<<0, 0, 0, 0>>, 1, 1, 0, 0)
    /\ header.kind = "Ok" /\ header.file_type = "INES"

\* a file of fifteen bytes has been rejected
ShortFileRejected ==
    /\ Len(rom_bytes) = 15 /\ header.kind = "InvalidHeader"

\* an iNES file with the magic has been parsed
InesParsed == Parsed /\ HasMagic /\ header.kind = "Ok" /\ header.file_type = "INES"

\* the three fields taken from whole bytes and from MirroringType
SizesAndMirroring ==
    /\ header.prg_rom_bytes = rom_bytes[5] * 16384
    /\ header.chr_rom_bytes = rom_bytes[6] * 8192
    /\ header.mirroring_type =
          IF Bit(rom_bytes[7], 3) = 1 THEN "FourScreen"
          ELSE IF Bit(rom_bytes[7], 0) = 1 THEN "Vertical" ELSE "Horizontal"

\* C29: for an iNES header, persistent RAM is bit 1 of byte 6, the trainer is
\* bit 2 of byte 6, the mirroring is four-screen if bit 3 of byte 6 is set and
\* otherwise vertical exactly when bit 0 is set, the mapper number is
\* (byte 7 & 0xF0) | (byte 6 >> 4), the PRG size is byte 4 * 16384 and the CHR
\* size is byte 5 * 8192
InesFields ==
    InesParsed =>
        /\ SizesAndMirroring
        /\ header.has_persistent_memory = (Bit(rom_bytes[7], 1) = 1)
        /\ header.has_trainer = (Bit(rom_bytes[7], 2) = 1)
        /\ header.mapper_number = BitOr(BitAnd(rom_bytes[8], 240), rom_bytes[7] \div 16)

\* what the parser does: both flags are bit 0 of byte 6, and the low nibble of
\* the mapper number is the low nibble of byte 6
InesFieldsShiftedMasks ==
    InesParsed =>
        /\ SizesAndMirroring
        /\ header.has_persistent_memory = (Bit(rom_bytes[7], 0) = 1)
        /\ header.has_trainer = (Bit(rom_bytes[7], 0) = 1)
        /\ header.mapper_number = BitAnd(rom_bytes[8], 240) + (rom_bytes[7] % 16)

\* byte 6 = 0x02: the persistent RAM bit is set and the header says there is none
PersistentMemoryMissed ==
    /\ InesParsed /\ rom_bytes[7] = 2
    /\ ~header.has_persistent_memory

\* byte 6 = 0x10: mapper 1 is parsed as mapper 0
MapperNibbleMissed ==
    /\ InesParsed /\ rom_bytes[7] = 16 /\ rom_bytes[8] = 0
    /\ header.mapper_number = 0

----------------------------------------------------------------------------
(* The cost of a store.                                                    *)

\* STA abs,X; STA abs,Y; STA (zp),Y and STA (zp,X); STA abs; STA zp,X; STA zp
IndexedStores == {157, 153, 145}
OtherStores == {129, 141, 149, 133}

\* the cycles of the opcode and operand fetch and of the address resolution
FetchAndResolveCost(byte) ==
    CASE byte \in {157, 153, 141} -> 3
      [] byte = 145 -> 2 + 2
      [] byte = 129 -> 2 + 3
      [] byte = 149 -> 2 + 1
      [] byte = 133 -> 2

\* what is left of the instruction's cycles for the write itself
WriteCost(byte) == (wait_cycles + 1) - FetchAndResolveCost(byte)

\* the addition of the index to the base crossed a page
StoreCrossed(byte) ==
    CASE byte = 157 -> Lo(OperandWord) + before.x > 255
      [] byte = 153 -> Lo(OperandWord) + before.y > 255
      [] byte = 145 -> read_mem(before.memory, OperandByte) + before.y > 255

\* C31: a store through Absolute-X, Absolute-Y or Indirect-Indexed always
\* costs 2 cycles for the write (the write and the fix-up read), whether or
\* not the index addition crossed a page; a store through any other memory
\* mode costs 1 cycle, and a write to the accumulator costs none
IndexedStoreCost ==
    /\ \A byte \in IndexedStores :
          Executed(byte) => WriteCost(byte) = 2 /\ Len(Written) = 1
    /\ \A byte \in OtherStores :
          Executed(byte) => WriteCost(byte) = 1 /\ Len(Written) = 1
    /\ \A value \in {0, 128} :
          try_write(CPU, Addressable([mode |-> "Accumulator", arg |-> 0],
                                     "Accumulator", 0, FALSE, 0), value).wait_cycles
             = wait_cycles

\* STA $0210,X with X = 1 crossed no page and took five cycles, two for the write
IndexedStoreCostWitness ==
    /\ Executed(157)
    /\ before.x = 1 /\ ~StoreCrossed(157)
    /\ Written[1].address = 529 /\ Written[1].value = before.a
    /\ wait_cycles + 1 = 5

\* STA ($10),Y with Y = 0xFF crossed a page and took six cycles
IndexedStoreCrossed ==
    /\ Executed(145)
    /\ StoreCrossed(145)
    /\ Written[1].address = 1007
    /\ wait_cycles + 1 = 6

----------------------------------------------------------------------------
(* Indexed addressing and the page crossing.                               *)

\* LDA abs,X; LDA abs,Y; LDA (zp),Y
IndexedLoads == {189, 185, 177}

\* the 16-bit base B the index is added to
IndexBase(byte) ==
    IF byte = 177
    THEN FromLeBytes(read_mem(before.memory, OperandByte),
                     read_mem(before.memory, (OperandByte + 1) % 256))
    ELSE OperandWord

\* the index i
IndexOf(byte) == IF byte = 189 THEN before.x ELSE before.y

\* the cycles of the load when no page is crossed
LoadCost(byte) == IF byte = 177 THEN 5 ELSE 4

\* the byte the step read last
LastRead == ReadsMade[Len(ReadsMade)]

\* C32: for Absolute-X, Absolute-Y and Indirect-Indexed with base B and index
\* i the target is (B + i) mod 65536, and a read costs one more cycle exactly
\* when (B & 0xFF) + i > 0xFF, which is exactly when the high byte of the
\* target differs from the high byte of B
IndexedTarget ==
    \A byte \in IndexedLoads :
        Executed(byte) =>
            /\ LastRead.address = (IndexBase(byte) + IndexOf(byte)) % 65536
            /\ a = LastRead.value
            /\ wait_cycles + 1 = LoadCost(byte)
                  + (IF Lo(IndexBase(byte)) + IndexOf(byte) > 255 THEN 1 ELSE 0)
            /\ (wait_cycles + 1 = LoadCost(byte) + 1)
                  <=> Hi(LastRead.address) # Hi(IndexBase(byte))

\* LDA $FFF0,X with X = 0xFF read 0x00EF in five cycles
IndexedTargetWitness ==
    /\ Executed(189)
    /\ OperandWord = 65520 /\ before.x = 255
    /\ LastRead.address = 239
    /\ wait_cycles + 1 = 5

\* LDA ($10),Y with Y = 0x0F read 0x02FF, on the page of the base, in five cycles
IndexedTargetSamePage ==
    /\ Executed(177)
    /\ before.y = 15
    /\ LastRead.address = 767
    /\ wait_cycles + 1 = 5

----------------------------------------------------------------------------
(* Branches.                                                               *)

\* BPL, BMI, BVC, BVS, BCC, BCS, BNE, BEQ
BranchOpcodes == {16, 48, 80, 112, 144, 176, 208, 240}

\* the flag a branch tests, and the value it branches on
BranchFlag(byte) ==
    CASE byte \in {16, 48} -> Negative
      [] byte \in {80, 112} -> Overflow
      [] byte \in {144, 176} -> Carry
      [] byte \in {208, 240} -> Zero

BranchOn(byte) == byte \in {48, 112, 176, 240}

\* the step ran this branch and its condition was true / false
BranchTaken(byte) ==
    Executed(byte) /\ (StatusGet(before.p, BranchFlag(byte)) = BranchOn(byte))
BranchNotTaken(byte) ==
    Executed(byte) /\ (StatusGet(before.p, BranchFlag(byte)) # BranchOn(byte))

\* the address following the operand byte
AfterOperand == (before.pc + 2) % 65536

\* M as a two's-complement offset
Signed(m) == IF m >= 128 THEN m - 256 ELSE m

\* PC + signed(M), and PC + M, modulo 65536
SignedTarget == (AfterOperand + Signed(OperandByte) + 65536) % 65536
UnsignedTarget == (AfterOperand + OperandByte) % 65536

\* C33: Relative addressing resolves to PC + signed(M), PC being the address
\* following the operand byte and M a two's-complement offset: M >= 0x80
\* yields a target below PC, M = 0xFF yields PC - 1, modulo 65536
RelativeIsSigned ==
    \A byte \in BranchOpcodes :
        BranchTaken(byte) =>
            /\ pc = SignedTarget
            /\ OperandByte >= 128 => pc < AfterOperand
            /\ OperandByte = 255 => pc = AfterOperand - 1

\* what the resolver does: M is added as an unsigned byte; for M < 0x80 that
\* is PC + signed(M)
RelativeIsUnsigned ==
    \A byte \in BranchOpcodes :
        BranchTaken(byte) =>
            /\ pc = UnsignedTarget
            /\ OperandByte < 128 => pc = SignedTarget

\* BNE $FF at 0xF000 went to 0xF101, not to 0xF001
BranchBackWentForward ==
    /\ BranchTaken(208)
    /\ before.pc = MAIN_PROGRAM /\ OperandByte = 255
    /\ pc = 61697

\* the cycles of the branch
BranchCycles == wait_cycles + 1

\* a branch not taken goes on behind its operand in two cycles
NotTakenCost ==
    \A byte \in BranchOpcodes :
        BranchNotTaken(byte) => pc = AfterOperand /\ BranchCycles = 2

\* C34: a branch whose condition is true sets PC to the resolved relative
\* target and costs one cycle more than the untaken branch, and one more if
\* the target is on a different page; a branch whose condition is false
\* leaves PC at the instruction following it and takes two cycles in total
BranchCost ==
    /\ NotTakenCost
    /\ \A byte \in BranchOpcodes :
          BranchTaken(byte) =>
              /\ pc = SignedTarget
              /\ BranchCycles = 3 + (IF Hi(SignedTarget) # Hi(AfterOperand) THEN 1 ELSE 0)

\* what holds: the same, with the target the resolver returns
BranchCostToResolvedTarget ==
    /\ NotTakenCost
    /\ \A byte \in BranchOpcodes :
          BranchTaken(byte) =>
              /\ pc = UnsignedTarget
              /\ BranchCycles = 3 + (IF Hi(UnsignedTarget) # Hi(AfterOperand) THEN 1 ELSE 0)

\* BVC $FC at 0xF108 went to 0xF206 in four cycles; 0xF106 is on the page of 0xF10A
BranchBackCharged ==
    /\ BranchTaken(80)
    /\ before.pc = 61704 /\ OperandByte = 252
    /\ pc = 61958 /\ BranchCycles = 4

\* BPL +127 at 0xF087 went to 0xF108, on the next page, in four cycles
BranchCrossedPage ==
    /\ BranchTaken(16)
    /\ before.pc = 61575
    /\ pc = 61704 /\ BranchCycles = 4

\* BEQ +5 at 0xF000 was not taken
BranchSkipped ==
    /\ BranchNotTaken(240)
    /\ pc = MAIN_PROGRAM + 2 /\ BranchCycles = 2

----------------------------------------------------------------------------
(* Addition, subtraction and comparison.                                   *)

\* the carry flag going in, as 0 or 1
CarryIn == Bit(before.p, Carry)

\* bit 7 of v, as 0x80 or 0
Sign(v) == BitAnd(v, 128)

\* the flags of the result in A
ZeroNegativeOf(result) ==
    /\ StatusGet(p, Zero) = (result = 0)
    /\ StatusGet(p, Negative) = (Bit(result, 7) = 1)

\* C35: for all A, operand M and carry-in C, ADC leaves A = (A + M + C) mod
\* 256, Carry = (A + M + C > 255), Overflow = ((A ^ result) & (M ^ result) &
\* 0x80 != 0), Zero = (result = 0) and Negative = bit 7 of the result
AddWithCarry ==
    Executed(105) =>
        /\ a = (before.a + OperandByte + CarryIn) % 256
        /\ StatusGet(p, Carry) = (before.a + OperandByte + CarryIn > 255)
        /\ StatusGet(p, Overflow)
              = (BitAnd(Sign(BitXor(before.a, a)), BitXor(OperandByte, a)) # 0)
        /\ ZeroNegativeOf(a)

\* SEC; LDA #$D0; ADC #$90 left A = 0x61 with Carry and Overflow set
AddWithCarryWitness ==
    /\ Executed(105)
    /\ before.a = 208 /\ OperandByte = 144 /\ CarryIn = 1
    /\ a = 97
    /\ StatusGet(p, Carry) /\ StatusGet(p, Overflow)
    /\ ~StatusGet(p, Zero) /\ ~StatusGet(p, Negative)

\* what ADC of m would leave in A and P, from the state the step started in
AddedTo(m) == add([CPU EXCEPT !.a = before.a, !.p = before.p], "A", m)

ArithmeticFlags == {Carry, Overflow, Zero, Negative}

\* C36: for all A, operand M and carry-in C, SBC leaves A = (A - M - (1 - C))
\* mod 256, Carry = carry-out of A + (M xor 0xFF) + C (cleared iff an unsigned
\* borrow occurred) and Overflow = ((A ^ M) & (A ^ result) & 0x80 != 0): the
\* same A, Carry, Overflow, Zero and Negative as ADC of the one's complement of M
SubtractWithCarry ==
    Executed(233) =>
        /\ a = (before.a - OperandByte - (1 - CarryIn) + 256) % 256
        /\ StatusGet(p, Carry) = (before.a + BitXor(OperandByte, 255) + CarryIn > 255)
        /\ StatusGet(p, Carry) = ~(before.a < OperandByte + (1 - CarryIn))
        /\ StatusGet(p, Overflow)
              = (BitAnd(Sign(BitXor(before.a, OperandByte)), BitXor(before.a, a)) # 0)
        /\ ZeroNegativeOf(a)
        /\ a = AddedTo(BitXor(OperandByte, 255)).a
        /\ \A flag \in ArithmeticFlags :
              StatusGet(p, flag) = StatusGet(AddedTo(BitXor(OperandByte, 255)).p, flag)

\* CLC; LDA #$80; SBC #$01 left A = 0x7E with Carry and Overflow set
SubtractWithCarryWitness ==
    /\ Executed(233)
    /\ before.a = 128 /\ OperandByte = 1 /\ CarryIn = 0
    /\ a = 126
    /\ StatusGet(p, Carry) /\ StatusGet(p, Overflow)
    /\ ~StatusGet(p, Zero) /\ ~StatusGet(p, Negative)

\* SEC; LDA #$01; SBC #$02 borrowed: A = 0xFF with Carry clear
SubtractBorrowed ==
    /\ Executed(233)
    /\ before.a = 1 /\ OperandByte = 2 /\ CarryIn = 1
    /\ a = 255 /\ ~StatusGet(p, Carry) /\ StatusGet(p, Negative)

\* the byte DCP decrements, and what it becomes
DecrementedFrom == read_mem(before.memory, OperandByte)
DecrementedTo == (DecrementedFrom + 255) % 256

\* C40: DCP sets the flags as CMP would against the decremented memory value
\* m' = (m - 1) mod 256: for all A and m, Carry = (A >= m'), Zero = (A = m')
\* and Negative = bit 7 of (A - m') mod 256, with A unchanged and m' stored
DecrementThenCompare ==
    Executed(199) =>
        /\ StatusGet(p, Carry) = (before.a >= DecrementedTo)
        /\ StatusGet(p, Zero) = (before.a = DecrementedTo)
        /\ StatusGet(p, Negative) = (Bit((before.a - DecrementedTo + 256) % 256, 7) = 1)
        /\ a = before.a
        /\ read_mem(memory, OperandByte) = DecrementedTo
        /\ \A flag \in {Carry, Zero, Negative} :
              StatusGet(p, flag)
                 = StatusGet(Compare([CPU EXCEPT !.p = before.p],
                                     before.a, DecrementedTo).p, flag)

\* LDA #$0F; DCP $10 on 0x10: memory 0x0F, and A = m' sets Zero and Carry
DecrementThenCompareWitness ==
    /\ Executed(199)
    /\ before.a = 15 /\ DecrementedFrom = 16
    /\ memory[16] = 15 /\ a = 15
    /\ StatusGet(p, Carry) /\ StatusGet(p, Zero) /\ ~StatusGet(p, Negative)

\* LDA #$0F; DCP $10 on 0x00: memory 0xFF, Carry clear
DecrementWrapped ==
    /\ Executed(199)
    /\ before.a = 15 /\ DecrementedFrom = 0
    /\ memory[16] = 255
    /\ ~StatusGet(p, Carry) /\ ~StatusGet(p, Zero) /\ ~StatusGet(p, Negative)

----------------------------------------------------------------------------
(* Return from interrupt.                                                  *)

\* the n-th of the three bytes RTI pulls: the last three reads of the step
PulledByRti(n) == ReadsMade[Len(ReadsMade) - 3 + n]

\* C37: RTI executed with stack pointer S reads P from 0x0100+S+1, PCL from
\* 0x0100+S+2 and PCH from 0x0100+S+3 (indices mod 256), sets PC = PCH*256 +
\* PCL with no +1, and leaves SP = S + 3 (mod 256)
ReturnFromInterrupt ==
    Executed(64) =>
        /\ Len(ReadsMade) >= 3 /\ Written = <<>>
        /\ \A n \in 1 .. 3 :
              /\ PulledByRti(n).address = StackAddress(before.sp + n)
              /\ PulledByRti(n).value = read_mem(before.memory, StackAddress(before.sp + n))
        /\ \A flag \in StoredFlags : Bit(p, flag) = Bit(PulledByRti(1).value, flag)
        /\ pc = PulledByRti(3).value * 256 + PulledByRti(2).value
        /\ sp = (before.sp + 3) % 256

\* RTI with S = 0xFD pulled from 0x01FE, 0x01FF and 0x0100 and went to 0xCFCF
ReturnFromInterruptWitness ==
    /\ Executed(64)
    /\ before.sp = 253
    /\ PulledByRti(1).address = 510 /\ PulledByRti(2).address = 511
    /\ PulledByRti(3).address = 256
    /\ PulledByRti(2).value = 207 /\ PulledByRti(3).value = 207
    /\ pc = 53199 /\ sp = 0

----------------------------------------------------------------------------
(* Returning from an interrupt handler.                                    *)

\* the step serviced an NMI or IRQ and succeeded
ServicedNow == Step /\ Succeeded /\ Serviced

\* the handler's first instruction, fetched in the step, is RTI
HandlerReturned == Started /\ First(trace, {"fetch"}).value = 64

\* the instructions following the one at the PC the step began with
SecondInstruction ==
    WrappingAdd16(before.pc, try_from_bus(before.pc, before.memory, FALSE).bytes_used)
ThirdInstruction ==
    WrappingAdd16(SecondInstruction,
                  try_from_bus(SecondInstruction, before.memory, FALSE).bytes_used)

\* C38: when an NMI or IRQ is serviced at a step that begins with PC = p (the
\* next instruction, not yet executed), the return address pushed is p, so a
\* handler consisting of a single RTI resumes at p with SP restored to its
\* value before the interrupt and no instruction skipped
InterruptReturnsToInterrupted ==
    ServicedNow =>
        /\ ReturnAddress(trace) = before.pc
        /\ HandlerReturned => pc = before.pc /\ sp = before.sp

\* what the code does: the two instructions at p are decoded and stepped over
\* before the push, and RTI resumes behind them, with SP restored
InterruptSkipsTwoInstructions ==
    ServicedNow =>
        /\ ReturnAddress(trace) = ThirdInstruction
        /\ ReturnAddress(trace) # before.pc
        /\ HandlerReturned => pc = ThirdInstruction /\ sp = before.sp

\* an NMI has been serviced and its RTI has resumed behind two instructions
\* that never ran
InterruptSkipped ==
    /\ ServicedNow /\ before.nmi /\ HandlerReturned
    /\ pc = ThirdInstruction /\ pc > before.pc + 1
    /\ sp = before.sp

----------------------------------------------------------------------------
(* An NMI asserted while the CPU waits.                                    *)

\* the step only counted down the pending counter, or only moved a DMA byte
Held == Step /\ (before.wait_cycles > 0 \/ (before.active_dma # <<>> /\ IsTransfer(trace)))

\* C39: an NMI asserted while the pending counter is non-zero or while a DMA
\* transfer is active is not lost: the nmi line stays asserted through every
\* waiting and DMA step, and (provided every decoded opcode is valid) the NMI is
\* serviced at the first later step at which the pending counter is zero and
\* no DMA is active
NmiNotLost ==
    /\ Held /\ before.nmi => nmi /\ ~Serviced /\ Succeeded
    /\ Step /\ before.nmi /\ ~nmi => NmiServiced
    /\ Ready /\ before.nmi /\ returned.kind # "InvalidInstruction" => NmiServiced /\ ~nmi

\* the same, at the steps that return Ok: adding the length of an instruction
\* decoded at the top of memory to PC overflows
NmiNotLostWhenOk ==
    /\ Held /\ before.nmi => nmi /\ ~Serviced /\ Succeeded
    /\ Step /\ before.nmi /\ ~nmi => NmiServiced
    /\ Ready /\ before.nmi /\ Succeeded => NmiServiced /\ ~nmi

\* the read-ahead of interrupt() overflowed PC: the NMI is still asserted
NmiServicingPanicked ==
    /\ Ready /\ before.nmi /\ returned.kind = "Panic"
    /\ Has(trace, {"NMI"}) /\ ~Has(trace, {"write"})
    /\ nmi

\* a DMA byte has been moved with the NMI asserted, and it stays asserted
NmiHeldDuringDma ==
    /\ Held /\ before.nmi /\ IsTransfer(trace)
    /\ nmi

\* the NMI asserted during the burst has been serviced by the first step after it
NmiNotLostWitness ==
    /\ Ready /\ before.nmi /\ NmiServiced /\ ~nmi
    /\ dma_log # <<>>
    /\ Len(dma_log[1].transfers) = DmaBytesToTransfer
    /\ dma_log[1].fetched # <<>>
    /\ dma_log[1].fetched[1].interrupted
    /\ dma_log[1].fetched[1].elapsed = before.elapsed_cycles

====
